---------------------------- MODULE Spec2Model ----------------------------
(***************************************************************************)
(* Verification model of the Google Drive retrieval subsystem              *)
(* (src/drive/drive_downloader.py, src/drive/folder.py).                   *)
(*                                                                         *)
(* The module holds several specifications over one set of variables:      *)
(*   Spec          batch_download / download_from_drive / download         *)
(*   SpecClassify  download over every URL shape of the universe           *)
(*   SpecFile      the single-file downloads, run up to MaxRuns times      *)
(*   SpecFolder    FolderDownloader.download_folder_recursive              *)
(*   SpecForm      the interstitial page and the follow-up request URL     *)
(*   SpecArchive   the waits for the archive of the browser folder download*)
(* Each specification parks the variables of the other parts.              *)
(***************************************************************************)
EXTENDS Integers, Sequences, FiniteSets, TLC

(***************************************************************************)
(* URLs.  A URL is a sequence of tokens.  A marker token is the literal    *)
(* text one of the regular expressions of _extract_file_id looks for; an   *)
(* identifier token is a maximal run of the characters [a-zA-Z0-9_-], so   *)
(* two identifier tokens are never adjacent.                               *)
(***************************************************************************)
FileView == "/file/d/"
FolderView == "/folders/"
FolderViewUpper == "/FOLDERS/"
IdQuery == "?id="
OpenLink == "/open?id="
IdTokens == {"A", "B"}
MarkerTokens == {FileView, FolderView, FolderViewUpper, IdQuery, OpenLink}
UrlTokens == MarkerTokens \cup IdTokens
None == "None"

\* Longest URL of the universe, in tokens.
MaxUrlLen == 4
\* Longest list handed to batch_download.
MaxBatch == 3

WellFormedTokens(u) ==
    \A k \in 1..(Len(u) - 1) : ~(u[k] \in IdTokens /\ u[k + 1] \in IdTokens)

AllUrls ==
    {u \in UNION {[1..n -> UrlTokens] : n \in 1..MaxUrlLen} : WellFormedTokens(u)}

\* The letters of a token in lower case (str.lower()).
Lower(tok) ==
    CASE tok = FolderViewUpper -> FolderView
      [] tok = "Folder" -> "folder"
      [] OTHER -> tok

\* The marker texts in which each pattern of _extract_file_id matches:
\* r'/file/d/(..)', r'/folders/(..)', r'[?&]id=(..)', r'/open\?id=(..)'.
\* The open link contains "?id=", so the id= pattern matches in it as well.
PatternsSwapped ==
    << {FolderView}, {FileView}, {IdQuery, OpenLink}, {OpenLink} >>

patterns ==
    << {FileView}, {FolderView}, {IdQuery, OpenLink}, {OpenLink} >>

\* Positions at which the pattern with markers m matches in u: the marker
\* followed by at least one identifier character.
MatchPositions(m, u) ==
    {k \in 1..(Len(u) - 1) : u[k] \in m /\ u[k + 1] \in IdTokens}

Min(S) == CHOOSE x \in S : \A y \in S : x <= y

\* re.search(pattern, url): group(1) of the leftmost match, or None.
ReSearch(m, u) ==
    IF MatchPositions(m, u) = {} THEN None ELSE u[Min(MatchPositions(m, u)) + 1]

\* _extract_file_id: the first pattern, in list order, that matches.
RECURSIVE ExtractFrom(_, _)
ExtractFrom(ps, u) ==
    IF ps = << >> THEN None
    ELSE IF ReSearch(Head(ps), u) # None THEN ReSearch(Head(ps), u)
    ELSE ExtractFrom(Tail(ps), u)

_extract_file_id(u) == ExtractFrom(patterns, u)

\* _is_folder: '/folders/' in url.lower() (the second test, for
\* '/drive/folders/', is implied by the first).
_is_folder(u) == \E k \in 1..Len(u) : Lower(u[k]) = FolderView

(***************************************************************************)
(* Cookies.  The persisted cookie file is absent, unparsable (truncated or *)
(* not JSON), holds a list of cookies (the empty list included), or holds  *)
(* JSON with an entry that is not a cookie object after some cookies.      *)
(***************************************************************************)
Cookies == {"SID"}
Absent == [state |-> "absent", cookies |-> {}]
Corrupt == [state |-> "corrupt", cookies |-> {}]
Listed(cookies) == [state |-> "list", cookies |-> cookies]
\* The cookies are the entries ahead of the one cookie.get(...) raises on.
BadEntry(cookies) == [state |-> "bad_entry", cookies |-> cookies]
CookieFileStates ==
    {Absent, Corrupt} \cup {Listed(c) : c \in SUBSET Cookies}
                      \cup {BadEntry(c) : c \in SUBSET Cookies}

(***************************************************************************)
(* Names, paths and the local disk.  A name is a sequence of characters, a *)
(* path a sequence of names below the output directory (<< >> is the       *)
(* output directory itself).                                               *)
(***************************************************************************)
\* The characters re.sub(r'[<>:"/\\|?*]', '_', file_name) replaces.
SingleUnsafe == {"<", ">", ":", "\"", "/", "\\", "|", "?", "*"}
\* The characters filename.replace('/', '_').replace('\\', '_') replaces.
DirectUnsafe == {"/", "\\"}

Substitute(name, unsafe) ==
    [k \in 1..Len(name) |-> IF name[k] \in unsafe THEN "_" ELSE name[k]]

NoFiles == [p \in {} |-> 0]

\* A mutant of OpenWb: the file is opened for appending.
OpenAppend(fs, path) == IF path \in DOMAIN fs THEN fs[path] ELSE 0

\* open(output_file, 'wb') creates or truncates: writing starts at byte 0.
OpenWb(fs, path) == 0

Write(fs, path, n) ==
    [p \in DOMAIN fs \cup {path} |-> IF p = path THEN n ELSE fs[p]]

\* A mutant of Unlink: the file is left where it is.
UnlinkSkipped(fs, path) == fs

\* output_file.unlink(missing_ok=True)
Unlink(fs, path) == [p \in DOMAIN fs \ {path} |-> fs[p]]

Parent(path) == SubSeq(path, 1, Len(path) - 1)
Prefixes(path) == {SubSeq(path, 1, n) : n \in 0..Len(path)}

(***************************************************************************)
(* The server.  A response is an exception raised by session.get, or a     *)
(* status, a content type and the marks the code looks for in an HTML      *)
(* body.  The body of the response that is finally streamed is a sequence  *)
(* of chunks that ends normally, or with an exception; the open of the     *)
(* destination may fail as well.                                           *)
(***************************************************************************)
Response(raised, status, html, marks) ==
    [raised |-> raised, status |-> status, html |-> html, marks |-> marks]
RaisedResponse == Response(TRUE, 0, FALSE, {})
FileResponse == Response(FALSE, 200, FALSE, {})
ErrorResponse == Response(FALSE, 404, FALSE, {})
Html(marks) == Response(FALSE, 200, TRUE, marks)

FirstResponses ==
    { RaisedResponse, FileResponse, ErrorResponse,
      Html({"download-form"}), Html({"virus", "confirm"}), Html({"virus"}),
      Html({"accounts"}), Html({"quota"}), Html({}), Html({"large"}) }
SecondResponses ==
    { RaisedResponse, FileResponse, ErrorResponse, Html({"download-form"}),
      Html({"accounts"}), Html({"quota"}), Html({}), Html({"large"}) }

\* Most chunks in one body, and most bytes in one chunk.
MaxChunks == 2
MaxChunkBytes == 2

ChunkSeqs == UNION {[1..n -> 0..MaxChunkBytes] : n \in 0..MaxChunks}
Streams ==
    {[chunks |-> c, end |-> e] : c \in ChunkSeqs, e \in {"eof", "raise"}}
        \cup {[chunks |-> << >>, end |-> "open_raise"]}

RECURSIVE Bytes(_)
Bytes(chunks) == IF chunks = << >> THEN 0 ELSE Head(chunks) + Bytes(Tail(chunks))

\* 'text/html' in content_type and the page is the virus-scan warning.
Interstitial(r) == r.html /\ r.marks \cap {"download-form", "virus"} # {}
\* ... and a follow-up URL is resolved from it: the form was parsed, or a
\* confirm= or uuid= token was found.
Resolved(r) ==
    ~r.raised /\ Interstitial(r) /\ r.marks \cap {"download-form", "confirm"} # {}

\* A mutant of Requests: a follow-up response that is an interstitial again
\* is followed up as well.
RequestsRepeated(src) ==
    IF Resolved(src.first) THEN (IF Resolved(src.second) THEN 3 ELSE 2) ELSE 1

\* The session.get calls of one download: the initial request and, when a
\* follow-up URL was resolved, the one request to it (no loop in the code).
Requests(src) == IF Resolved(src.first) THEN 2 ELSE 1
Final(src) == IF Resolved(src.first) THEN src.second ELSE src.first

Sources ==
    {src \in [first : FirstResponses, second : SecondResponses, stream : Streams] :
        Resolved(src.first) \/ src.second = FileResponse}

\* How the request phase of _download_file_direct ends (lines 331-416):
\* "stream" when the response goes on to be written to disk.
DirectVerdict(src) ==
    IF src.first.raised THEN "exception"
    ELSE IF src.first.html /\ ~Interstitial(src.first) /\ "accounts" \in src.first.marks
         THEN "auth"
    ELSE IF Final(src).raised THEN "exception"
    ELSE IF Final(src).status # 200 THEN "status"
    ELSE IF Final(src).html /\ "accounts" \in Final(src).marks THEN "auth"
    ELSE IF Final(src).html /\ "quota" \in Final(src).marks THEN "quota"
    ELSE IF Final(src).html /\ "large" \notin Final(src).marks THEN "html"
    ELSE "stream"

\* The same for _download_single_file (lines 304-337): only the status counts.
SingleVerdict(src) ==
    IF src.first.raised \/ Final(src).raised THEN "exception"
    ELSE IF Final(src).status # 200 THEN "status"
    ELSE "stream"

\* open(output_file, 'wb') raises on a directory ('.' and '..' always are
\* directories) and in a directory that does not exist.
CanOpen(stream, path, ds) ==
    /\ stream.end # "open_raise"
    /\ path \notin ds /\ path[Len(path)] \notin {<< "." >>, << ".." >>}
    /\ Parent(path) \in ds

\* The with-block: the file is opened and every chunk written to it.
Streamed(stream, path, fs) ==
    Write(fs, path, OpenWb(fs, path) + Bytes(stream.chunks))

Result(fs, dl, fl, ts, r, o, n, op) ==
    [files |-> fs, downloaded_files |-> dl, failed_files |-> fl, total_size |-> ts,
     ret |-> r, out |-> o, requests |-> n, opened |-> op]

\* FolderDownloader._download_single_file(file_id, file_name, output_path) on
\* the disk and lists d; the result holds the new disk and lists, the value
\* returned, the branch taken, and the number of requests issued.
_download_single_file(src, name, dir, d) ==
    LET safe_name == Substitute(name, SingleUnsafe)
        output_file == Append(dir, safe_name)
        downloaded == Bytes(src.stream.chunks)
        n == Requests(src)
    IN  IF SingleVerdict(src) = "exception"
        THEN Result(d.files, d.downloaded_files, Append(d.failed_files, name),
                    d.total_size, FALSE, "exception", n, FALSE)
        ELSE IF SingleVerdict(src) = "status"
        THEN Result(d.files, d.downloaded_files, Append(d.failed_files, safe_name),
                    d.total_size, FALSE, "status", n, FALSE)
        ELSE IF ~CanOpen(src.stream, output_file, d.dirs)
        THEN Result(d.files, d.downloaded_files, Append(d.failed_files, name),
                    d.total_size, FALSE, "exception", n, FALSE)
        ELSE IF src.stream.end = "raise"
        THEN Result(Streamed(src.stream, output_file, d.files), d.downloaded_files,
                    Append(d.failed_files, name), d.total_size, FALSE, "exception", n, TRUE)
        ELSE IF downloaded > 0
        THEN Result(Streamed(src.stream, output_file, d.files),
                    Append(d.downloaded_files, output_file), d.failed_files,
                    d.total_size + downloaded, TRUE, "ok", n, TRUE)
        ELSE Result(Unlink(Streamed(src.stream, output_file, d.files), output_file),
                    d.downloaded_files, Append(d.failed_files, safe_name),
                    d.total_size, FALSE, "zero_bytes", n, TRUE)

\* re.search(r'filename\*?=["\']?([^"\';\n]+)', disposition).group(1): the
\* characters after filename= up to the first quote or semicolon (<< >>
\* stands for no match: the header or its parameter is missing).
RECURSIVE FilenameMatch(_)
FilenameMatch(value) ==
    IF value = << >> \/ Head(value) \in {"'", "\"", ";"} THEN << >>
    ELSE << Head(value) >> \o FilenameMatch(Tail(value))

\* Lines 421-429: the match, with the prefix UTF-8'' cut off when it starts
\* with it.
ContentDispositionName(value) ==
    LET filename == FilenameMatch(value)
    IN  IF Len(filename) >= 3 /\ SubSeq(filename, 1, 3) = << "UTF-8", "'", "'" >>
        THEN SubSeq(filename, 4, Len(filename))
        ELSE filename

\* The file name _download_file_direct writes to (lines 419-435): the name
\* of the Content-Disposition header, else download_<file_id>.
DirectFileName(value, id) ==
    LET filename == ContentDispositionName(value)
    IN  Substitute(IF filename = << >> THEN << "download_", id >> ELSE filename,
                   DirectUnsafe)

\* GoogleDriveDownloader._download_file_direct(file_id, output_path), with
\* output_path the directory dir.
_download_file_direct(src, id, name, dir, d) ==
    LET output_file == Append(dir, DirectFileName(name, id))
        downloaded == Bytes(src.stream.chunks)
        n == Requests(src)
        Same(r, o, op) == Result(d.files, d.downloaded_files, d.failed_files,
                                 d.total_size, r, o, n, op)
        Wrote(fs, r, o) == Result(fs, d.downloaded_files, d.failed_files,
                                  d.total_size, r, o, n, TRUE)
    IN  IF DirectVerdict(src) # "stream"
        THEN Same(FALSE, DirectVerdict(src), FALSE)
        ELSE IF ~CanOpen(src.stream, output_file, d.dirs)
        THEN Same(FALSE, "exception", FALSE)
        ELSE IF src.stream.end = "raise"
        THEN Wrote(Streamed(src.stream, output_file, d.files), FALSE, "exception")
        ELSE IF downloaded = 0
        THEN Wrote(Unlink(Streamed(src.stream, output_file, d.files), output_file),
                   FALSE, "zero_bytes")
        ELSE Wrote(Streamed(src.stream, output_file, d.files), TRUE, "ok")

(***************************************************************************)
(* The interstitial page.  The page holds the form with id download-form   *)
(* or not; the form has an action and input elements in document order;    *)
(* the body may also hold the word virus and confirm= / uuid= tokens.  A   *)
(* URL is the sequence of its pieces.                                      *)
(***************************************************************************)
\* Most input elements in the form.
MaxFields == 2

\* "" stands for an attribute that is missing or empty: both are falsy.
FieldNames == {"id", "confirm", ""}
FieldValues == {"X", "t", "a b", ""}
InputTypes == {"hidden", "submit"}
Fields == [name : FieldNames, value : FieldValues, type : InputTypes]
FormAction == "https://host/download"
AltHost == "https://drive.usercontent.google.com/download"

FormPages ==
    {[form |-> TRUE, inputs |-> f, virus |-> FALSE, confirm |-> None, uuid |-> None] :
        f \in UNION {[1..n -> Fields] : n \in 0..MaxFields}}
PlainPages ==
    {[form |-> FALSE, inputs |-> << >>, virus |-> v, confirm |-> c, uuid |-> u] :
        v \in BOOLEAN, c \in {None, "t"}, u \in {None, "u"}}
Pages == FormPages \cup PlainPages

\* params[name] = value on a dict that keeps insertion order.
DictSet(d, k, v) ==
    IF \E j \in 1..Len(d) : d[j].name = k
    THEN [j \in 1..Len(d) |-> IF d[j].name = k THEN [name |-> k, value |-> v] ELSE d[j]]
    ELSE Append(d, [name |-> k, value |-> v])

\* _parse_download_form, the loop over form.find_all('input'):
\* `if name and value: params[name] = value`.
RECURSIVE FormParams(_, _)
FormParams(inputs, d) ==
    IF inputs = << >> THEN d
    ELSE FormParams(Tail(inputs),
                    IF Head(inputs).name # "" /\ Head(inputs).value # ""
                    THEN DictSet(d, Head(inputs).name, Head(inputs).value)
                    ELSE d)

\* _parse_download_form: None without the form, else action and params.
_parse_download_form(pg) ==
    [found |-> pg.form, action |-> FormAction, params |-> FormParams(pg.inputs, << >>)]

\* urllib.parse.quote_plus on the values of the universe.
quote_plus(v) == IF v = "a b" THEN "a+b" ELSE v

RECURSIVE urlencode(_)
urlencode(params) ==
    IF params = << >> THEN << >>
    ELSE << Head(params).name, "=", quote_plus(Head(params).value) >>
            \o (IF Len(params) > 1 THEN << "&" >> \o urlencode(Tail(params)) ELSE << >>)

NoRequest == << >>
Pending == << "pending" >>

\* The params of the fallback: id and export, then the tokens found.
TokenParams(id, pg) ==
    << [name |-> "id", value |-> id], [name |-> "export", value |-> "download"] >>
        \o (IF pg.confirm # None THEN << [name |-> "confirm", value |-> pg.confirm] >> ELSE << >>)
        \o (IF pg.uuid # None THEN << [name |-> "uuid", value |-> pg.uuid] >> ELSE << >>)

\* The URL of the follow-up request of a single-file download whose first
\* response is the HTML page pg, NoRequest if there is none.
FollowUpUrl(id, pg) ==
    IF ~(pg.form \/ pg.virus) THEN NoRequest
    ELSE IF _parse_download_form(pg).found
    THEN << _parse_download_form(pg).action, "?" >>
             \o urlencode(_parse_download_form(pg).params)
    ELSE IF pg.confirm # None \/ pg.uuid # None
    THEN << AltHost, "?" >> \o urlencode(TokenParams(id, pg))
    ELSE NoRequest

(***************************************************************************)
(* Remote folder trees.  A tree maps a folder identifier to the entries of *)
(* the folder in listing order; "root" is the folder the traversal starts  *)
(* from.                                                                   *)
(***************************************************************************)
FileEntry(id, name) == [id |-> id, name |-> name, isFolder |-> FALSE]
FolderEntry(id, name) == [id |-> id, name |-> name, isFolder |-> TRUE]

\* Two files side by side.
TreeFlat ==
    "root" :> << FileEntry("f1", << "a" >>), FileEntry("f2", << "b" >>) >>
\* Three files over two nested subfolders; the subfolder is listed first.
TreeNested ==
    ("root" :> << FolderEntry("d1", << "d" >>), FileEntry("f1", << "a" >>) >>)
    @@ ("d1" :> << FileEntry("f2", << "b" >>), FolderEntry("d2", << "e" >>) >>)
    @@ ("d2" :> << FileEntry("f3", << "a" >>) >>)
\* A file name with an unsafe character, beside a name it sanitises to.
TreeUnsafe ==
    "root" :> << FileEntry("f1", << "a", "?" >>), FileEntry("f2", << "a", "_" >>) >>
\* Two files of one name.
TreeTwins ==
    "root" :> << FileEntry("f1", << "a" >>), FileEntry("f2", << "a" >>) >>
\* A file and a subfolder of one name, and a second subfolder after them.
TreeClash ==
    ("root" :> << FileEntry("f1", << "d" >>), FolderEntry("d1", << "d" >>),
                  FolderEntry("d2", << "e" >>) >>)
    @@ ("d1" :> << FileEntry("f2", << "b" >>) >>)
    @@ ("d2" :> << FileEntry("f3", << "c" >>) >>)
\* An empty subfolder between two siblings.
TreeHollow ==
    ("root" :> << FolderEntry("d1", << "d" >>), FolderEntry("d2", << "e" >>),
                  FileEntry("f1", << "a" >>) >>)
    @@ ("d1" :> << >>)
    @@ ("d2" :> << FileEntry("f2", << "b" >>) >>)

\* A file and a subfolder named '..', and in the subfolder a file whose name
\* holds a path separator.
TreeEscape ==
    ("root" :> << FileEntry("f1", << ".." >>), FolderEntry("d1", << ".." >>) >>)
    @@ ("d1" :> << FileEntry("f2", << "a", "/", "b" >>) >>)

Trees == {TreeFlat, TreeNested, TreeUnsafe, TreeTwins, TreeClash, TreeHollow, TreeEscape}

\* What one listing strategy may return for folder f: nothing, the entries
\* of the folder, or only the first of them.
ListingResults(t, f) ==
    {<< >>, t[f]} \cup (IF Len(t[f]) > 1 THEN {<< Head(t[f]) >>} ELSE {})

\* What the request of one listing strategy may end in (a frame keeps the
\* kind of the last one in answer): a body the strategy
\* reads items from, an exception raised by session.get, a status other than
\* 200, or a body it cannot parse (no JSON, or JSON of another shape).
ListingAnswers(t, f) ==
    {[kind |-> "items", items |-> r] : r \in ListingResults(t, f)}
        \cup {[kind |-> k, items |-> << >>] : k \in {"raise", "status", "garbage"}}

\* _fetch_via_query_api: a status other than 200 and a JSONDecodeError return
\* [], and so does every other exception (the outer handler).
_fetch_via_query_api(a) == IF a.kind = "items" THEN a.items ELSE << >>
\* _fetch_via_html_parsing: a status other than 200 returns [], a body none
\* of the three patterns matches gives no items, an exception returns [].
_fetch_via_html_parsing(a) == IF a.kind = "items" THEN a.items ELSE << >>
\* _fetch_via_batch_api: a status other than 200 returns []; response.json()
\* is not guarded by itself, its exception reaches the outer handler: [].
_fetch_via_batch_api(a) == IF a.kind = "items" THEN a.items ELSE << >>

\* The servers the files of a traversal are downloaded from: a file of two
\* bytes, a bad status, a body that breaks off after one byte, an empty body.
FolderSources ==
    { [first |-> FileResponse, second |-> FileResponse,
       stream |-> [chunks |-> << 2 >>, end |-> "eof"]],
      [first |-> ErrorResponse, second |-> FileResponse,
       stream |-> [chunks |-> << >>, end |-> "eof"]],
      [first |-> FileResponse, second |-> FileResponse,
       stream |-> [chunks |-> << 1 >>, end |-> "raise"]],
      [first |-> FileResponse, second |-> FileResponse,
       stream |-> [chunks |-> << >>, end |-> "eof"]] }

IsFile(item) == ~item.isFolder
IsFolder(item) == item.isFolder

Frame(id, path) ==
    [folder_id |-> id, current_path |-> path, phase |-> "enter", items |-> << >>,
     listLog |-> << >>, answer |-> "none", nfiles |-> 0, nfolders |-> 0]

(***************************************************************************)
(* Browser drivers.  A driver instance launched by the current download    *)
(* call is named after the code that launched it.  Of the instances of     *)
(* earlier calls only the one self.driver still refers to is followed: no  *)
(* code can reach the others again.                                        *)
(***************************************************************************)
NoDriver == [by |-> "none"]
Driver(by) == [by |-> by]
Earlier == Driver("earlier call")

\* What a successful login read from its browser and how its _save_cookies
\* ended; before any login of the call, nothing.
NoLogin == [ok |-> FALSE, cookies |-> {}, save |-> "none"]

VARIABLES
    \* batch_download / download_from_drive
    entry,          \* "batch" | "single": the convenience function called
    urls,           \* the URLs requested
    force_reauth,   \* the force_reauth argument of download
    bpc,            \* "loop" | "returned" | "raised"
    i,              \* download calls completed
    results,        \* the dict of batch_download
    callLog,        \* the completed download calls: [url, ret]
    \* GoogleDriveDownloader
    cookie_file,    \* content of self.cookie_file
    jar,            \* self.session.cookies
    authenticated,  \* self.authenticated
    \* one download call
    pc,             \* position inside download
    url,            \* its url argument
    file_id,        \* file_id
    session_valid,  \* session_valid
    trace,          \* what the call has done so far, in order
    file0,          \* the cookie file as the call found it
    ret,            \* its return value
    \* the browser drivers
    alive,          \* the driver instances followed that are running
    self_driver,    \* self.driver: NoDriver, or a driver (quit or not)
    launched,       \* driver instances launched by the current download call
    extracted,      \* the cookies the last successful login of the call read
                    \* from its browser, and how saving them ended
    \* the local file system and the FolderDownloader
    files,          \* the regular files on disk: path -> byte count
    dirs,           \* the directories on disk
    downloaded_files,   \* self.downloaded_files
    failed_files,       \* self.failed_files
    total_size,         \* self.total_size
    \* repeated single-file downloads
    variant,        \* "direct": _download_file_direct, "single": _download_single_file
    source,         \* what the server answers to the requests of one download
    file_name,      \* the display name _download_single_file is given
    disposition,    \* the filename parameter of the Content-Disposition header
    runs,           \* downloads completed
    runLog,         \* one record per completed download
    \* download_folder_recursive
    tree,           \* the remote folder tree: folder id -> its children
    stack,          \* the active calls of download_folder_recursive, innermost last
    flog,           \* what the traversal has done so far, in order
    root_ret,       \* "running", or the value returned by the outermost call
    \* the interstitial page
    page,           \* the HTML body of the first response
    next_url,       \* the URL of the follow-up request, NoRequest if none
    \* the waits of the browser folder download
    wpc,            \* "start" | "snapshot" | "complete" | "done"
    elapsed,        \* sleeps of the running wait so far
    initial_files,  \* initial_files of _wait_for_download_complete
    last_size,      \* last_size: temp file -> the size seen at the last poll
    no_change_count,    \* no_change_count
    streak,             \* history: temporary file -> unchanged checks in a row
    wret,           \* "running", or what the waits returned
    \* the callers of download: review_executor and batch_download
    opc, \* the position of the caller's main thread
    active, \* the download calls in progress: [call, downloader]
    browsers, \* the downloaders whose self.driver is a running driver
    made, \* GoogleDriveDownloader objects constructed so far
    ncalls, \* download calls begun so far
    returned, \* "True" | "False" | "raised": how the download calls ended, in order
    threads, \* th1, th2 of orchestrate: "idle" | "running" | "done"
    \* the interactive login of a download call
    lpc, \* "launch" | "check" | "poll" | "returned" | "transfer" | "done"
    site, \* the call of _authenticate_with_browser: "probe" (line 110) | "download" (line 1106)
    shows, \* what the browser shows: "none" | "signin" | "other" | "drive"
    waited, \* turns of the loop of _wait_for_login so far
    lrets, \* what the logins of the call returned, in order, and why
    dret, \* "running" | "True" | "False": what download returned
    \* one listing of a folder, from the response to the entries
    raw, \* what the response held: the items of the JSON body, or the matches of the three patterns
    by, \* "none" | "query" | "html" | "batch": the strategy that has read it
    listing, \* the entries the strategy returned
    \* the Download entry of the context menu in the browser folder download
    mpc, \* "menu" | "loop" | "wait" | "done"
    on_page, \* selector -> "timeout" | "enter_raises" | "ok": what trying it does
    at, \* the position of the selector loop in download_selectors
    attempts, \* the selectors tried so far, in order
    sent, \* the key presses sent so far, in order
    download_found, \* download_found
    mret  \* "running" | "True" | "False": what the fallback returned

batchVars == << entry, urls, force_reauth, bpc, i, results, callLog >>
sessionVars == << cookie_file, jar, authenticated >>
callVars == << pc, url, file_id, session_valid, trace, file0, ret >>
diskVars == << files, dirs, downloaded_files, failed_files, total_size >>
fileVars == << variant, source, file_name, disposition, runs, runLog >>
folderVars == << tree, stack, flog, root_ret >>
formVars == << page, next_url >>
driverVars == << alive, self_driver, launched, extracted >>
downloadVars == << batchVars, sessionVars, callVars, driverVars >>
archiveVars == << wpc, elapsed, initial_files, last_size, no_change_count, streak, wret >>
orchestrateVars == << opc, active, browsers, made, ncalls, returned, threads >>
loginVars == << lpc, site, shows, waited, lrets, dret >>
listingVars == << raw, by, listing >>
menuVars == << mpc, on_page, at, attempts, sent, download_found, mret >>
vars == << downloadVars, diskVars, fileVars, folderVars, formVars, archiveVars, orchestrateVars, loginVars, listingVars, menuVars >>

\* What the actions of one part leave alone.
notDownload == << diskVars, fileVars, folderVars, formVars, archiveVars, orchestrateVars, loginVars, listingVars, menuVars >>
notFile == << downloadVars, folderVars, formVars, archiveVars, orchestrateVars, loginVars, listingVars, menuVars >>
notFolder == << downloadVars, fileVars, formVars, archiveVars, orchestrateVars, loginVars, listingVars, menuVars >>
notForm == << downloadVars, diskVars, fileVars, folderVars, archiveVars, orchestrateVars, loginVars, listingVars, menuVars >>
notArchive ==
    << downloadVars, fileVars, folderVars, formVars,
       dirs, downloaded_files, failed_files, total_size, orchestrateVars, loginVars, listingVars, menuVars >>
notOrchestrate ==
    << downloadVars, diskVars, fileVars, folderVars, formVars, archiveVars, loginVars, listingVars, menuVars >>
notLogin ==
    << downloadVars, diskVars, fileVars, folderVars, formVars, archiveVars, orchestrateVars, listingVars, menuVars >>
notListing ==
    << downloadVars, diskVars, fileVars, folderVars, formVars, archiveVars, orchestrateVars, loginVars, menuVars >>
notMenu ==
    << downloadVars, diskVars, fileVars, folderVars, formVars, archiveVars, orchestrateVars, loginVars, listingVars >>

\* The values the variables of a part keep in the specifications of the
\* other parts.
ParkDownload ==
    /\ entry = "single" /\ urls = << >> /\ force_reauth = FALSE
    /\ bpc = "returned" /\ i = 0 /\ results = << >> /\ callLog = << >>
    /\ cookie_file = Absent /\ jar = {} /\ authenticated = FALSE
    /\ pc = "idle" /\ url = << >> /\ file_id = None /\ session_valid = FALSE
    /\ trace = << >> /\ file0 = Absent /\ ret = FALSE
    /\ alive = {} /\ self_driver = NoDriver /\ launched = 0
    /\ extracted = NoLogin
ParkDisk ==
    /\ files = NoFiles /\ dirs = {}
    /\ downloaded_files = << >> /\ failed_files = << >> /\ total_size = 0
ParkFile ==
    /\ variant = "direct"
    /\ source = [first |-> FileResponse, second |-> FileResponse,
                 stream |-> [chunks |-> << >>, end |-> "eof"]]
    /\ file_name = << >> /\ disposition = << >> /\ runs = 0 /\ runLog = << >>
ParkFolder ==
    /\ tree = TreeFlat /\ stack = << >> /\ flog = << >> /\ root_ret = "running"
ParkForm ==
    /\ page = [form |-> FALSE, inputs |-> << >>, virus |-> FALSE,
               confirm |-> None, uuid |-> None]
    /\ next_url = Pending
ParkArchive ==
    /\ wpc = "done" /\ elapsed = 0 /\ initial_files = {}
    /\ last_size = NoFiles /\ no_change_count = 0 /\ streak = NoFiles
    /\ wret = "running"
ParkOrchestrate ==
    /\ opc = "done" /\ active = {} /\ browsers = {} /\ made = 0 /\ ncalls = 0
    /\ returned = << >>
    /\ threads = [t \in {"docker-thread", "llm-thread"} |-> "idle"]
ParkLogin ==
    /\ lpc = "done" /\ site = "download" /\ shows = "none" /\ waited = 0
    /\ lrets = << >> /\ dret = "running"
ParkListing ==
    /\ raw = [kind |-> "none"] /\ by = "none" /\ listing = << >>
ParkMenu ==
    /\ mpc = "done" /\ on_page = << >> /\ at = 0 /\ attempts = << >> /\ sent = << >>
    /\ download_found = FALSE /\ mret = "running"

\* The URLs the batch specification draws its lists from: a file view, a
\* folder view and a malformed URL (SpecClassify covers every other shape).
UrlSamples ==
    { << FileView, "A" >>, << FolderView, "B" >>, << FileView >> }

UrlLists == UNION {[1..n -> UrlSamples] : n \in 1..MaxBatch}

InitCall ==
    /\ pc = "idle"
    /\ url = << >>
    /\ file_id = None
    /\ session_valid = FALSE
    /\ trace = << >>
    /\ file0 = Absent
    /\ ret = FALSE

\* GoogleDriveDownloader.__init__ plus whatever the cookie file holds.
InitSession ==
    /\ cookie_file \in CookieFileStates
    /\ jar = {}
    /\ authenticated = FALSE
    /\ alive = {}
    /\ self_driver = NoDriver
    /\ launched = 0
    /\ extracted = NoLogin

InitBatch ==
    /\ \/ /\ entry = "batch"
          /\ urls \in UrlLists
          /\ force_reauth = FALSE
       \/ /\ entry = "single"
          /\ urls \in {<< u >> : u \in UrlSamples}
          /\ force_reauth \in BOOLEAN
    /\ bpc = "loop"
    /\ i = 0
    /\ results = << >>
    /\ callLog = << >>

Init ==
    /\ InitBatch /\ InitSession /\ InitCall
    /\ ParkDisk /\ ParkFile /\ ParkFolder /\ ParkForm /\ ParkArchive /\ ParkOrchestrate /\ ParkLogin /\ ParkListing /\ ParkMenu

(***************************************************************************)
(* download                                                                *)
(***************************************************************************)

\* A mutant of DownloadBegin: an unrecognised URL raises out of download.
DownloadBeginRaising ==
    /\ bpc = "loop" /\ pc = "idle" /\ i < Len(urls)
    /\ url' = urls[i + 1]
    /\ file_id' = _extract_file_id(urls[i + 1])
    /\ trace' = << >>
    /\ file0' = cookie_file
    /\ session_valid' = FALSE
    /\ ret' = FALSE
    /\ IF _extract_file_id(urls[i + 1]) = None
       THEN pc' = "idle" /\ bpc' = "raised"
       ELSE pc' = "session" /\ bpc' = bpc
    /\ launched' = 0
    /\ extracted' = NoLogin
    /\ self_driver' = IF self_driver = NoDriver THEN NoDriver ELSE Earlier
    /\ alive' = IF self_driver \in alive THEN {Earlier} ELSE {}
    /\ UNCHANGED << entry, urls, force_reauth, i, results, callLog, sessionVars >>
    /\ UNCHANGED notDownload

\* A mutant of DownloadBegin: the session is checked before the identifier
\* is looked at.
DownloadBeginSessionFirst ==
    /\ bpc = "loop" /\ pc = "idle" /\ i < Len(urls)
    /\ url' = urls[i + 1]
    /\ file_id' = _extract_file_id(urls[i + 1])
    /\ trace' = << >>
    /\ file0' = cookie_file
    /\ session_valid' = FALSE
    /\ ret' = FALSE
    /\ pc' = "session"
    /\ launched' = 0
    /\ extracted' = NoLogin
    /\ self_driver' = IF self_driver = NoDriver THEN NoDriver ELSE Earlier
    /\ alive' = IF self_driver \in alive THEN {Earlier} ELSE {}
    /\ UNCHANGED << batchVars, sessionVars >>
    /\ UNCHANGED notDownload

\* download, lines 1079-1092: the output directory is made (taken to succeed),
\* the identifier extracted; without one the call returns False at once.
DownloadBegin ==
    /\ bpc = "loop" /\ pc = "idle" /\ i < Len(urls)
    /\ url' = urls[i + 1]
    /\ file_id' = _extract_file_id(urls[i + 1])
    /\ trace' = << >>
    /\ file0' = cookie_file
    /\ session_valid' = FALSE
    /\ ret' = FALSE
    /\ pc' = IF _extract_file_id(urls[i + 1]) = None THEN "ret" ELSE "session"
    /\ launched' = 0
    /\ extracted' = NoLogin
    /\ self_driver' = IF self_driver = NoDriver THEN NoDriver ELSE Earlier
    /\ alive' = IF self_driver \in alive THEN {Earlier} ELSE {}
    /\ UNCHANGED << batchVars, sessionVars >>
    /\ UNCHANGED notDownload

\* download, lines 1094-1101: validate only without force_reauth and with a
\* cookie file.
SessionGate ==
    /\ pc = "session"
    /\ pc' = IF ~force_reauth /\ cookie_file # Absent THEN "validate" ELSE "auth"
    /\ UNCHANGED << batchVars, sessionVars, url, file_id, session_valid, trace, file0, ret >>
    /\ UNCHANGED driverVars
    /\ UNCHANGED notDownload

\* _load_cookies_to_session: False without a file, with an unparsable file or
\* an empty list; otherwise the jar is cleared and refilled from the file,
\* entry by entry, and an entry that raises ends the call with False.
LoadOk(file) == file.state = "list" /\ file.cookies # {}
LoadedJar(file, old) ==
    IF LoadOk(file) \/ file.state = "bad_entry" THEN file.cookies ELSE old

\* _validate_session up to the probe: the file test and the cookie load.
ValidateLoad ==
    /\ pc = "validate"
    /\ jar' = LoadedJar(cookie_file, jar)
    /\ trace' = Append(trace, IF LoadOk(cookie_file) THEN "load_ok" ELSE "load_fail")
    /\ pc' = IF LoadOk(cookie_file) THEN "probe" ELSE "auth"
    /\ UNCHANGED << batchVars, cookie_file, authenticated, url, file_id, session_valid, file0, ret >>
    /\ UNCHANGED driverVars
    /\ UNCHANGED notDownload

ProbeOutcomes == {"drive_200", "login_redirect", "unexpected", "exception"}
ProbeEvent(outcome) ==
    CASE outcome = "drive_200" -> "probe_ok"
      [] outcome = "login_redirect" -> "probe_redirect"
      [] OTHER -> "probe_fail"

\* A mutant of ValidateProbe: any response that is not a login redirect counts
\* as a valid session.
ValidateProbeLenient(outcome) ==
    /\ pc = "probe"
    /\ trace' = Append(trace, ProbeEvent(outcome))
    /\ IF outcome = "login_redirect"
       THEN /\ pc' = "relogin"
            /\ UNCHANGED << authenticated, session_valid >>
       ELSE /\ authenticated' = TRUE
            /\ session_valid' = TRUE
            /\ pc' = "dispatch"
    /\ UNCHANGED << batchVars, cookie_file, jar, url, file_id, file0, ret >>
    /\ UNCHANGED driverVars
    /\ UNCHANGED notDownload

\* _validate_session, lines 93-127: the live GET and what its answer means.
ValidateProbe(outcome) ==
    /\ pc = "probe"
    /\ trace' = Append(trace, ProbeEvent(outcome))
    /\ CASE outcome = "drive_200" ->
              /\ authenticated' = TRUE
              /\ session_valid' = TRUE
              /\ pc' = "dispatch"
         [] outcome = "login_redirect" ->
              /\ pc' = "relogin"
              /\ UNCHANGED << authenticated, session_valid >>
         [] OTHER ->
              /\ session_valid' = FALSE
              /\ pc' = "auth"
              /\ UNCHANGED authenticated
    /\ UNCHANGED << batchVars, cookie_file, jar, url, file_id, file0, ret >>
    /\ UNCHANGED driverVars
    /\ UNCHANGED notDownload

\* _save_cookies: the file keeps its content if the failure comes before the
\* open, is truncated if it comes after, and holds the cookies otherwise.
SaveOutcomes == {"saved", "failed_before_open", "failed_after_open"}
SavedFile(file, cookies, how) ==
    CASE how = "saved" -> Listed(cookies)
      [] how = "failed_before_open" -> file
      [] OTHER -> Corrupt

\* How an interactive login ends: the browser shows the authenticated UI (at
\* once or within the wait), the wait times out, the browser cannot be
\* launched, or something raises after the launch.
LoginOutcomes == {"logged_in", "timeout", "no_browser", "exception"}

\* _authenticate_with_browser(return_driver), lines 159-225, as the values it
\* leaves behind.  d is the driver instance it launches.  Without
\* return_driver every path quits the driver (and a failed launch quits
\* whatever self.driver still held); with return_driver the driver is handed
\* back on success and is left running, in self.driver, on a timeout or an
\* exception.
_authenticate_with_browser(outcome, cookies, how, return_driver, d) ==
    LET ok == outcome = "logged_in"
        saved == SavedFile(cookie_file, cookies, how)
        started == outcome # "no_browser"
    IN  [ok |-> ok,
         cookie_file |-> IF ok THEN saved ELSE cookie_file,
         jar |-> IF ok THEN LoadedJar(saved, jar) ELSE jar,
         authenticated |-> authenticated \/ ok,
         alive |-> IF return_driver
                   THEN (IF started THEN alive \cup {d} ELSE alive)
                   ELSE (IF started THEN alive ELSE alive \ {self_driver}),
         self_driver |-> IF return_driver
                         THEN (IF started THEN d ELSE self_driver)
                         ELSE NoDriver,
         launched |-> launched + (IF started THEN 1 ELSE 0),
         extracted |-> IF ok THEN [ok |-> TRUE, cookies |-> cookies, save |-> how]
                            ELSE extracted]

\* A mutant of Authenticate: download goes on to the transfer whatever the
\* login returned.
AuthenticateProceeding(outcome, cookies, how) ==
    /\ pc \in {"relogin", "auth"}
    /\ LET r == _authenticate_with_browser(outcome, cookies, how, FALSE,
                                           Driver("login"))
       IN  /\ trace' = Append(trace, IF r.ok THEN "login_ok" ELSE "login_fail")
           /\ cookie_file' = r.cookie_file
           /\ jar' = r.jar
           /\ authenticated' = r.authenticated
           /\ alive' = r.alive
           /\ self_driver' = r.self_driver
           /\ launched' = r.launched
           /\ extracted' = r.extracted
           /\ session_valid' = (r.ok /\ pc = "relogin")
           /\ pc' = IF r.ok \/ pc = "auth" THEN "dispatch" ELSE "auth"
           /\ ret' = ret
    /\ UNCHANGED << batchVars, url, file_id, file0 >>
    /\ UNCHANGED notDownload

\* download, lines 1103-1108, and _validate_session, line 111: the call
\* _authenticate_with_browser().  A failed login after the probe's redirect
\* makes _validate_session return False, and download logs in once more.
Authenticate(outcome, cookies, how) ==
    /\ pc \in {"relogin", "auth"}
    /\ LET r == _authenticate_with_browser(outcome, cookies, how, FALSE,
                                           Driver("login"))
       IN  /\ trace' = Append(trace, IF r.ok THEN "login_ok" ELSE "login_fail")
           /\ cookie_file' = r.cookie_file
           /\ jar' = r.jar
           /\ authenticated' = r.authenticated
           /\ alive' = r.alive
           /\ self_driver' = r.self_driver
           /\ launched' = r.launched
           /\ extracted' = r.extracted
           /\ IF r.ok
              THEN /\ session_valid' = (pc = "relogin")
                   /\ pc' = "dispatch"
                   /\ ret' = ret
              ELSE /\ session_valid' = FALSE
                   /\ pc' = IF pc = "relogin" THEN "auth" ELSE "ret"
                   /\ ret' = FALSE
    /\ UNCHANGED << batchVars, url, file_id, file0 >>
    /\ UNCHANGED notDownload

\* download, lines 1110-1120.
Dispatch ==
    /\ pc = "dispatch"
    /\ trace' = Append(trace, IF _is_folder(url) THEN "FOLDER" ELSE "FILE")
    /\ pc' = IF _is_folder(url) THEN "folder_backend" ELSE "file"
    /\ UNCHANGED << batchVars, sessionVars, url, file_id, session_valid, file0, ret >>
    /\ UNCHANGED driverVars
    /\ UNCHANGED notDownload

\* _download_file_direct as seen by download: the transfer request goes out
\* and the call reports whether a non-empty file was written.
DownloadFileDirectCall(ok) ==
    /\ pc = "file"
    /\ trace' = Append(trace, "transfer")
    /\ ret' = ok
    /\ pc' = "ret"
    /\ UNCHANGED << batchVars, sessionVars, url, file_id, session_valid, file0 >>
    /\ UNCHANGED driverVars
    /\ UNCHANGED notDownload

\* How the browser set-up of _try_backend_folder_download ends (outcome):
\* "reused", self.driver is set and used again; "no_browser", the launch
\* fails; "cookies_rejected" or "login_page", the cookies cannot be restored
\* or Drive shows the login page (the driver is quit); "exception", something
\* raises after the launch; "ready", the driver is kept in self.driver.
\*
\* GoogleDriveDownloader._try_backend_folder_download (lines 523-566): after
\* the browser set-up it builds a FolderDownloader, prints its summary and
\* evaluates the unbound name `success`; the NameError is caught and the
\* method returns False.  No listing request is ever issued, and the driver
\* that was launched and stored in self.driver is not quit; neither is a
\* driver whose set-up raised.
TryBackendFolderDownload(outcome) ==
    /\ pc = "folder_backend"
    /\ (outcome = "reused") <=> (self_driver # NoDriver)
    /\ outcome \in {"login_page", "ready"} => LoadOk(cookie_file)
    /\ LET d == Driver("backend")
       IN  /\ alive' = IF outcome \in {"exception", "ready"} THEN alive \cup {d} ELSE alive
           /\ self_driver' = IF outcome = "ready" THEN d ELSE self_driver
    /\ launched' = launched + (IF outcome \in {"reused", "no_browser"} THEN 0 ELSE 1)
    /\ trace' = Append(trace, "backend_false")
    /\ pc' = "folder_browser"
    /\ UNCHANGED << batchVars, sessionVars, url, file_id, session_valid, file0, ret, extracted >>
    /\ UNCHANGED notDownload

\* The ways through _download_folder_with_browser (path): "no_browser",
\* Chrome cannot be launched; "script_raised", the script run right after the
\* launch raises; "session_restored", the saved session is restored into the
\* browser and the folder opens; "login_page", the session is restored but
\* the folder URL lands on the login page; "relogin", the cookies cannot be
\* restored or the session is not valid, and an interactive login is started.
\*
\* _download_folder_with_browser (lines 701-968).  ok tells whether the
\* archive download was started and seen complete.  The driver of this
\* method is quit on every path after the inner try is entered; the driver of
\* the nested login is quit only if the login succeeded.
DownloadFolderWithBrowser(path, outcome, cookies, how, ok) ==
    /\ pc = "folder_browser"
    /\ path \in {"session_restored", "login_page"} => LoadOk(cookie_file)
    /\ pc' = "ret"
    /\ LET own == Driver("browser")
           d == Driver("browser_login")
           r == _authenticate_with_browser(outcome, cookies, how, TRUE, d)
       IN  IF path = "relogin"
           THEN /\ trace' = trace \o << "browser_download",
                                        IF r.ok THEN "browser_login_ok"
                                                ELSE "browser_login_fail" >>
                /\ cookie_file' = r.cookie_file
                /\ jar' = r.jar
                /\ authenticated' = r.authenticated
                /\ alive' = IF r.ok THEN r.alive \ {d} ELSE r.alive
                /\ self_driver' = r.self_driver
                /\ launched' = r.launched + 1
                /\ extracted' = r.extracted
                /\ ret' = (r.ok /\ ok)
           ELSE /\ trace' = Append(trace, "browser_download")
                /\ UNCHANGED << sessionVars, self_driver, extracted >>
                /\ alive' = IF path = "script_raised" THEN alive \cup {own} ELSE alive
                /\ launched' = launched + (IF path = "no_browser" THEN 0 ELSE 1)
                /\ ret' = (path = "session_restored" /\ ok)
    /\ UNCHANGED << batchVars, url, file_id, session_valid, file0 >>
    /\ UNCHANGED notDownload

\* batch_download, line 1310 (and the return of download_from_drive): the
\* outcome is stored under the URL.
DownloadReturn ==
    /\ pc = "ret"
    /\ results' = (url :> ret) @@ results
    /\ callLog' = Append(callLog, [url |-> url, ret |-> ret])
    /\ i' = i + 1
    /\ bpc' = IF i + 1 = Len(urls) THEN "returned" ELSE "loop"
    /\ pc' = "idle"
    /\ UNCHANGED << entry, urls, force_reauth, sessionVars, url, file_id, session_valid, trace, file0, ret >>
    /\ UNCHANGED driverVars
    /\ UNCHANGED notDownload

DownloadNext ==
    \/ DownloadBegin
    \/ SessionGate
    \/ ValidateLoad
    \/ \E outcome \in ProbeOutcomes : ValidateProbe(outcome)
    \/ \E cookies \in SUBSET Cookies, how \in SaveOutcomes :
          Authenticate("logged_in", cookies, how)
    \/ \E outcome \in LoginOutcomes \ {"logged_in"} : Authenticate(outcome, {}, "saved")
    \/ Dispatch
    \/ \E ok \in BOOLEAN : DownloadFileDirectCall(ok)
    \/ \E outcome \in {"reused", "no_browser", "cookies_rejected", "login_page",
                       "exception", "ready"} : TryBackendFolderDownload(outcome)
    \/ \E ok \in BOOLEAN :
          DownloadFolderWithBrowser("session_restored", "no_browser", {}, "saved", ok)
    \/ \E path \in {"no_browser", "script_raised", "login_page"} :
          DownloadFolderWithBrowser(path, "no_browser", {}, "saved", FALSE)
    \/ \E cookies \in SUBSET Cookies, how \in SaveOutcomes, ok \in BOOLEAN :
          DownloadFolderWithBrowser("relogin", "logged_in", cookies, how, ok)
    \/ \E outcome \in LoginOutcomes \ {"logged_in"} :
          DownloadFolderWithBrowser("relogin", outcome, {}, "saved", FALSE)
    \/ DownloadReturn

Next == DownloadNext

Spec == Init /\ [][Next]_vars

\* download_from_drive(url, output_path) on every URL of the universe.
InitClassify ==
    /\ entry = "single"
    /\ urls \in {<< u >> : u \in AllUrls}
    /\ force_reauth = FALSE
    /\ bpc = "loop"
    /\ i = 0
    /\ results = << >>
    /\ callLog = << >>
    /\ cookie_file \in {Absent, Listed(Cookies)}
    /\ jar = {}
    /\ authenticated = FALSE
    /\ alive = {} /\ self_driver = NoDriver /\ launched = 0
    /\ extracted = NoLogin
    /\ InitCall
    /\ ParkDisk /\ ParkFile /\ ParkFolder /\ ParkForm /\ ParkArchive /\ ParkOrchestrate /\ ParkLogin /\ ParkListing /\ ParkMenu

\* Classification does not depend on what the servers and the browser do, so
\* here every stage of download has one way to succeed and one way to fail:
\* the probe is answered by Drive or by an unexpected page, a login succeeds
\* and saves its cookies or times out, the backend attempt keeps its driver or
\* cannot restore the cookies, and the browser download runs on the restored
\* session.
NextClassify ==
    \/ DownloadBegin
    \/ SessionGate
    \/ ValidateLoad
    \/ \E outcome \in {"drive_200", "unexpected"} : ValidateProbe(outcome)
    \/ \E outcome \in {"logged_in", "timeout"} : Authenticate(outcome, Cookies, "saved")
    \/ Dispatch
    \/ \E ok \in BOOLEAN : DownloadFileDirectCall(ok)
    \/ \E outcome \in {"ready", "cookies_rejected"} : TryBackendFolderDownload(outcome)
    \/ \E ok \in BOOLEAN :
          DownloadFolderWithBrowser("session_restored", "no_browser", {}, "saved", ok)
    \/ DownloadReturn

SpecClassify == InitClassify /\ [][NextClassify]_vars

(***************************************************************************)
(* Single-file downloads, repeated on one destination                      *)
(***************************************************************************)
\* Most downloads run one after another.
MaxRuns == 2
\* The size of a file that is at the destination before the first download.
OldBytes == 5

FileNameSamples == { << "a" >>, << "a", "?" >> }
\* What follows filename= (or filename*=) in the Content-Disposition header
\* of the response that is streamed; << >> when there is none.
Dispositions ==
    { << >>, << "a" >>, << "a", "?" >>, << "a", "/" >>, << "UTF-8", "'", "'", "b" >> }

DiskAndLists ==
    [files |-> files, dirs |-> dirs, downloaded_files |-> downloaded_files,
     failed_files |-> failed_files, total_size |-> total_size]

\* The destination file of the downloads of this run.
Dest ==
    IF variant = "direct" THEN << DirectFileName(disposition, "A") >>
    ELSE << Substitute(file_name, SingleUnsafe) >>

InitFile ==
    /\ ParkDownload /\ ParkFolder /\ ParkForm /\ ParkArchive /\ ParkOrchestrate /\ ParkLogin /\ ParkListing /\ ParkMenu
    /\ variant \in {"direct", "single"}
    /\ source \in Sources
    /\ file_name \in (IF variant = "direct" THEN {<< >>} ELSE FileNameSamples)
    /\ disposition \in Dispositions
    /\ dirs = {<< >>}
    /\ files \in {NoFiles, Write(NoFiles, Dest, OldBytes)}
    /\ downloaded_files = << >> /\ failed_files = << >> /\ total_size = 0
    /\ runs = 0 /\ runLog = << >>

\* What a completed download leaves in the log: its result and the disk and
\* lists it started from.
Logged(r, d) ==
    [ret |-> r.ret, out |-> r.out, requests |-> r.requests, opened |-> r.opened,
     before |-> d, after |-> r.files]

Completed(r) ==
    /\ files' = r.files
    /\ downloaded_files' = r.downloaded_files
    /\ failed_files' = r.failed_files
    /\ total_size' = r.total_size
    /\ runLog' = Append(runLog, Logged(r, DiskAndLists))
    /\ runs' = runs + 1
    /\ UNCHANGED << dirs, variant, source, file_name, disposition >>

\* One call of _download_file_direct(file_id, output_path).
DownloadFileDirect ==
    /\ variant = "direct" /\ runs < MaxRuns
    /\ Completed(_download_file_direct(source, "A", disposition, << >>, DiskAndLists))
    /\ UNCHANGED notFile

\* One call of _download_single_file(file_id, file_name, output_path).
DownloadSingleFile ==
    /\ variant = "single" /\ runs < MaxRuns
    /\ Completed(_download_single_file(source, file_name, << >>, DiskAndLists))
    /\ UNCHANGED notFile

NextFile ==
    \/ DownloadFileDirect
    \/ DownloadSingleFile

SpecFile == InitFile /\ [][NextFile]_vars

(***************************************************************************)
(* The interstitial page                                                   *)
(***************************************************************************)
InitForm ==
    /\ ParkDownload /\ ParkDisk /\ ParkFile /\ ParkFolder /\ ParkArchive /\ ParkOrchestrate /\ ParkLogin /\ ParkListing /\ ParkMenu
    /\ page \in Pages
    /\ next_url = Pending

\* The HTML branch of the single-file downloads: the follow-up URL is
\* composed from the page.
ResolveInterstitial ==
    /\ next_url = Pending
    /\ next_url' = FollowUpUrl("A", page)
    /\ UNCHANGED page
    /\ UNCHANGED notForm

NextForm == ResolveInterstitial

SpecForm == InitForm /\ [][NextForm]_vars

(***************************************************************************)
(* FolderDownloader.download_folder_recursive                              *)
(***************************************************************************)
Top == stack[Len(stack)]
SetTop(fr) == [stack EXCEPT ![Len(stack)] = fr]
Pop == SubSeq(stack, 1, Len(stack) - 1)
Event(ev, id, ok) == [ev |-> ev, id |-> id, ok |-> ok]
Call(strategy, result) == [strategy |-> strategy, result |-> result]

\* download_folder_recursive(folder_id, output_path) on an empty disk.
InitFolder ==
    /\ ParkDownload /\ ParkFile /\ ParkForm /\ ParkDisk /\ ParkArchive /\ ParkOrchestrate /\ ParkLogin /\ ParkListing /\ ParkMenu
    /\ tree \in Trees
    /\ stack = << Frame("root", << >>) >>
    /\ flog = << >>
    /\ root_ret = "running"

\* A mutant of EnterFolder: the listing is asked for first, the directory
\* is left to whoever writes into it.
EnterFolderUnmade ==
    /\ stack # << >> /\ Top.phase = "enter"
    /\ stack' = SetTop([Top EXCEPT !.phase = "query"])
    /\ flog' = Append(flog, Event("enter", Top.folder_id, TRUE))
    /\ UNCHANGED << diskVars, tree, root_ret >>
    /\ UNCHANGED notFolder

\* Lines 404-405: current_dir.mkdir(parents=True, exist_ok=True), which
\* raises when the path or one of its parents is a regular file.
EnterFolder ==
    /\ stack # << >> /\ Top.phase = "enter"
    /\ IF \E p \in Prefixes(Top.current_path) : p \in DOMAIN files
       THEN /\ stack' = SetTop([Top EXCEPT !.phase = "raised"])
            /\ flog' = Append(flog, Event("mkdir_raised", Top.folder_id, FALSE))
            /\ UNCHANGED dirs
       ELSE /\ stack' = SetTop([Top EXCEPT !.phase = "query"])
            /\ flog' = Append(flog, Event("enter", Top.folder_id, TRUE))
            /\ dirs' = dirs \cup Prefixes(Top.current_path)
    /\ UNCHANGED << files, downloaded_files, failed_files, total_size, tree, root_ret >>
    /\ UNCHANGED notFolder

\* The listing of _get_folder_contents is settled with items.
Settled(strategy, kind, result, phase) ==
    /\ stack' = SetTop([Top EXCEPT !.phase = phase, !.items = result,
                                   !.listLog = Append(@, Call(strategy, result)),
                                   !.answer = kind])
    /\ flog' = Append(flog, Event("listed", Top.folder_id, result = tree[Top.folder_id]))

\* The strategy returned nothing: on to the next one.
Fallback(strategy, kind, result, phase) ==
    /\ stack' = SetTop([Top EXCEPT !.phase = phase,
                                   !.listLog = Append(@, Call(strategy, result)),
                                   !.answer = kind])
    /\ flog' = flog

\* A mutant of FetchViaQueryApi: the markup strategy runs whatever the
\* structured query returned.
FetchViaQueryApiThenHtml(answer) ==
    /\ stack # << >> /\ Top.phase = "query"
    /\ Fallback("query", answer.kind, _fetch_via_query_api(answer), "html")
    /\ UNCHANGED << diskVars, tree, root_ret >>
    /\ UNCHANGED notFolder

\* _get_folder_contents, lines 52-55.
FetchViaQueryApi(answer) ==
    /\ stack # << >> /\ Top.phase = "query"
    /\ LET result == _fetch_via_query_api(answer)
       IN  IF result # << >> THEN Settled("query", answer.kind, result, "work")
                             ELSE Fallback("query", answer.kind, result, "html")
    /\ UNCHANGED << diskVars, tree, root_ret >>
    /\ UNCHANGED notFolder

\* _get_folder_contents, lines 58-61.
FetchViaHtmlParsing(answer) ==
    /\ stack # << >> /\ Top.phase = "html"
    /\ LET result == _fetch_via_html_parsing(answer)
       IN  IF result # << >> THEN Settled("html", answer.kind, result, "work")
                             ELSE Fallback("html", answer.kind, result, "batch")
    /\ UNCHANGED << diskVars, tree, root_ret >>
    /\ UNCHANGED notFolder

\* A mutant of FetchViaBatchApi: an exception of the request is not caught.
FetchViaBatchApiRaising(answer) ==
    /\ stack # << >> /\ Top.phase = "batch"
    /\ LET result == _fetch_via_batch_api(answer)
       IN  IF answer.kind = "raise"
           THEN Fallback("batch", answer.kind, result, "raised")
           ELSE Settled("batch", answer.kind, result,
                        IF result # << >> THEN "work" ELSE "unlisted")
    /\ UNCHANGED << diskVars, tree, root_ret >>
    /\ UNCHANGED notFolder

\* _get_folder_contents, lines 64-70: after the last strategy the result is
\* its list, empty or not.
FetchViaBatchApi(answer) ==
    /\ stack # << >> /\ Top.phase = "batch"
    /\ LET result == _fetch_via_batch_api(answer)
       IN  Settled("batch", answer.kind, result,
                   IF result # << >> THEN "work" ELSE "unlisted")
    /\ UNCHANGED << diskVars, tree, root_ret >>
    /\ UNCHANGED notFolder

FilesOf(fr) == SelectSeq(fr.items, IsFile)
FoldersOf(fr) == SelectSeq(fr.items, IsFolder)

\* A mutant of DownloadFile: a failed file ends the work on its folder.
DownloadFileAborting(src) ==
    /\ stack # << >> /\ Top.phase = "work" /\ Top.nfiles < Len(FilesOf(Top))
    /\ LET item == FilesOf(Top)[Top.nfiles + 1]
           r == _download_single_file(src, item.name, Top.current_path, DiskAndLists)
       IN  /\ files' = r.files
           /\ downloaded_files' = r.downloaded_files
           /\ failed_files' = r.failed_files
           /\ total_size' = r.total_size
           /\ flog' = Append(flog, Event("file", item.id, r.ret))
           /\ stack' = SetTop([Top EXCEPT !.nfiles = @ + 1,
                                          !.phase = IF r.ret THEN @ ELSE "raised"])
    /\ UNCHANGED << dirs, tree, root_ret >>
    /\ UNCHANGED notFolder

\* A mutant of DownloadFile: the bytes of the file are not added to
\* total_size.
DownloadFileUncounted(src) ==
    /\ stack # << >> /\ Top.phase = "work" /\ Top.nfiles < Len(FilesOf(Top))
    /\ LET item == FilesOf(Top)[Top.nfiles + 1]
           r == _download_single_file(src, item.name, Top.current_path, DiskAndLists)
       IN  /\ files' = r.files
           /\ downloaded_files' = r.downloaded_files
           /\ failed_files' = r.failed_files
           /\ total_size' = total_size
           /\ flog' = Append(flog, Event("file", item.id, r.ret))
    /\ stack' = SetTop([Top EXCEPT !.nfiles = @ + 1])
    /\ UNCHANGED << dirs, tree, root_ret >>
    /\ UNCHANGED notFolder

\* Lines 424-433: the next file of the folder is downloaded, its result
\* ignored.
DownloadFile(src) ==
    /\ stack # << >> /\ Top.phase = "work" /\ Top.nfiles < Len(FilesOf(Top))
    /\ LET item == FilesOf(Top)[Top.nfiles + 1]
           r == _download_single_file(src, item.name, Top.current_path, DiskAndLists)
       IN  /\ files' = r.files
           /\ downloaded_files' = r.downloaded_files
           /\ failed_files' = r.failed_files
           /\ total_size' = r.total_size
           /\ flog' = Append(flog, Event("file", item.id, r.ret))
    /\ stack' = SetTop([Top EXCEPT !.nfiles = @ + 1])
    /\ UNCHANGED << dirs, tree, root_ret >>
    /\ UNCHANGED notFolder

\* A mutant of EnterSubfolder: a subfolder is entered while files of the
\* folder are still to be downloaded.
EnterSubfolderEarly ==
    /\ stack # << >> /\ Top.phase = "work"
    /\ Top.nfolders < Len(FoldersOf(Top))
    /\ LET item == FoldersOf(Top)[Top.nfolders + 1]
       IN  stack' = Append(SetTop([Top EXCEPT !.nfolders = @ + 1]),
                           Frame(item.id, Append(Top.current_path, item.name)))
    /\ UNCHANGED << diskVars, tree, flog, root_ret >>
    /\ UNCHANGED notFolder

\* A mutant of EnterSubfolder: the loop over the subfolders does not move
\* on to the next one.
EnterSubfolderAgain ==
    /\ stack # << >> /\ Top.phase = "work"
    /\ Top.nfiles = Len(FilesOf(Top)) /\ Top.nfolders < Len(FoldersOf(Top))
    /\ LET item == FoldersOf(Top)[Top.nfolders + 1]
       IN  stack' = Append(stack, Frame(item.id, Append(Top.current_path, item.name)))
    /\ UNCHANGED << diskVars, tree, flog, root_ret >>
    /\ UNCHANGED notFolder

\* Lines 436-447: after the files, the next subfolder is entered.
EnterSubfolder ==
    /\ stack # << >> /\ Top.phase = "work"
    /\ Top.nfiles = Len(FilesOf(Top)) /\ Top.nfolders < Len(FoldersOf(Top))
    /\ LET item == FoldersOf(Top)[Top.nfolders + 1]
       IN  stack' = Append(SetTop([Top EXCEPT !.nfolders = @ + 1]),
                           Frame(item.id, Append(Top.current_path, item.name)))
    /\ UNCHANGED << diskVars, tree, flog, root_ret >>
    /\ UNCHANGED notFolder

\* Line 451: return True.
ReturnTrue ==
    /\ stack # << >> /\ Top.phase = "work"
    /\ Top.nfiles = Len(FilesOf(Top)) /\ Top.nfolders = Len(FoldersOf(Top))
    /\ stack' = Pop
    /\ flog' = Append(flog, Event("done", Top.folder_id, TRUE))
    /\ root_ret' = IF Len(stack) = 1 THEN "True" ELSE root_ret
    /\ UNCHANGED << diskVars, tree >>
    /\ UNCHANGED notFolder

\* Lines 410-412 and 453-457: return False on an empty listing and on an
\* exception.
ReturnFalse ==
    /\ stack # << >> /\ Top.phase \in {"unlisted", "raised"}
    /\ stack' = Pop
    /\ flog' = Append(flog, Event("done", Top.folder_id, FALSE))
    /\ root_ret' = IF Len(stack) = 1 THEN "False" ELSE root_ret
    /\ UNCHANGED << diskVars, tree >>
    /\ UNCHANGED notFolder

\* What a strategy may return for the folder being listed.
TopListings == IF stack = << >> THEN {} ELSE ListingAnswers(tree, Top.folder_id)

NextFolder ==
    \/ EnterFolder
    \/ \E answer \in TopListings : FetchViaQueryApi(answer)
    \/ \E answer \in TopListings : FetchViaHtmlParsing(answer)
    \/ \E answer \in TopListings : FetchViaBatchApi(answer)
    \/ \E src \in FolderSources : DownloadFile(src)
    \/ EnterSubfolder
    \/ ReturnTrue
    \/ ReturnFalse

SpecFolder == InitFolder /\ [][NextFolder]_vars

\* The traversal is sequential code on one thread: a step that can be taken
\* is taken (every request has a timeout, every loop is over a list).
SpecFolderLive == SpecFolder /\ WF_vars(NextFolder)

(***************************************************************************)
(* The archive of the browser folder download.  After the Download entry   *)
(* of the menu was chosen, the code polls the output directory while the   *)
(* browser, on its own, may write a temporary file there and rename it to  *)
(* the archive when the transfer ends.  A file of the directory is the     *)
(* path << name >>, a name the sequence << stem, suffix >>.                *)
(***************************************************************************)
\* The polls _wait_for_download_start makes (timeout=120, a sleep of 1 s),
\* the polls _wait_for_download_complete makes (timeout=180, a sleep of 2 s)
\* and the number of unchanged sizes it tolerates (30), all scaled down.
StartPolls == 2
CompletePolls == 4
StuckLimit == 1
\* The largest archive, in bytes.
MaxArchiveBytes == 2

TempFile == << << "B", ".crdownload" >> >>
ZipFile == << << "B", ".zip" >> >>
OldZip == << << "old", ".zip" >> >>
\* A temporary file an interrupted earlier download left in the directory.
StaleTemp == << << "old", ".part" >> >>

\* download_path.glob('*.crdownload') + glob('*.tmp') + glob('*.part')
TempFiles(fs) == {p \in DOMAIN fs : p[1][Len(p[1])] \in {".crdownload", ".tmp", ".part"}}
\* {f.name for f in download_path.iterdir() if f.is_file() and f.suffix == '.zip'}
ZipFiles(fs) == {p \in DOMAIN fs : p[1][Len(p[1])] = ".zip"}

\* _download_folder_with_browser, line 946: the download entry was chosen
\* and the wait for the start begins.  An archive of an earlier download and
\* a temporary file of an interrupted one may be in the directory.
InitArchive ==
    /\ ParkDownload /\ ParkFile /\ ParkFolder /\ ParkForm /\ ParkOrchestrate /\ ParkLogin /\ ParkListing /\ ParkMenu
    /\ files \in {[p \in old |-> OldBytes] : old \in SUBSET {OldZip, StaleTemp}}
    /\ dirs = {<< >>}
    /\ downloaded_files = << >> /\ failed_files = << >> /\ total_size = 0
    /\ wpc = "start"
    /\ elapsed = 0
    /\ initial_files = {}
    /\ last_size = NoFiles
    /\ no_change_count = 0
    /\ streak = NoFiles
    /\ wret = "running"

\* The browser starts the transfer: an empty temporary file appears.
BrowserStartsDownload ==
    /\ TempFile \notin DOMAIN files /\ ZipFile \notin DOMAIN files
    /\ files' = Write(files, TempFile, 0)
    /\ UNCHANGED archiveVars
    /\ UNCHANGED notArchive

\* The browser receives more of the archive.
BrowserWrites ==
    /\ TempFile \in DOMAIN files /\ files[TempFile] < MaxArchiveBytes
    /\ files' = Write(files, TempFile, files[TempFile] + 1)
    /\ UNCHANGED archiveVars
    /\ UNCHANGED notArchive

\* The transfer ends and the browser renames the temporary file, however
\* many bytes it received.
BrowserFinishes ==
    /\ TempFile \in DOMAIN files
    /\ files' = Write(Unlink(files, TempFile), ZipFile, files[TempFile])
    /\ UNCHANGED archiveVars
    /\ UNCHANGED notArchive

\* _wait_for_download_start, lines 974-984: one turn of the loop.
PollStart ==
    /\ wpc = "start" /\ elapsed < StartPolls
    /\ IF TempFiles(files) # {}
       THEN wpc' = "snapshot" /\ elapsed' = elapsed
       ELSE wpc' = wpc /\ elapsed' = elapsed + 1
    /\ UNCHANGED << files, initial_files, last_size, no_change_count, streak, wret >>
    /\ UNCHANGED notArchive

\* _wait_for_download_start, line 986, and _download_folder_with_browser,
\* lines 954-956: no temporary file was seen in time.
StartTimedOut ==
    /\ wpc = "start" /\ elapsed = StartPolls
    /\ wpc' = "done"
    /\ wret' = "False"
    /\ UNCHANGED << files, elapsed, initial_files, last_size, no_change_count, streak >>
    /\ UNCHANGED notArchive

\* _wait_for_download_complete, lines 990-1000: the archives that are in the
\* directory when the second wait begins.
SnapshotInitialFiles ==
    /\ wpc = "snapshot"
    /\ initial_files' = ZipFiles(files)
    /\ last_size' = NoFiles
    /\ no_change_count' = 0
    /\ streak' = NoFiles
    /\ elapsed' = 0
    /\ wpc' = "complete"
    /\ UNCHANGED << files, wret >>
    /\ UNCHANGED notArchive

\* The temporary files in the order of line 1004: those glob('*.crdownload')
\* finds, then those of glob('*.tmp'), then those of glob('*.part').
TempList(fs) == SelectSeq(<< TempFile, StaleTemp >>, LAMBDA p : p \in DOMAIN fs)

\* The count of unchanged sizes after the sizes of the temporary files were
\* compared, one file after the other, with the recorded ones (lines
\* 1011-1025): one counter for all the files.
RECURSIVE Unchanged(_, _, _, _)
Unchanged(temp_files, fs, last, count) ==
    IF temp_files = << >> THEN count
    ELSE LET tf == Head(temp_files)
         IN  Unchanged(Tail(temp_files), fs, last,
                       IF tf \notin DOMAIN last THEN count
                       ELSE IF fs[tf] = last[tf] THEN count + 1
                       ELSE 0)

\* _wait_for_download_complete, lines 1002-1054: one turn of the loop.
\* streak is not a variable of the code: for each temporary file, the number
\* of checks in a row that found its size unchanged.
PollComplete ==
    /\ wpc = "complete" /\ elapsed < CompletePolls
    /\ IF TempFiles(files) # {}
       THEN /\ last_size' = [p \in TempFiles(files) |-> files[p]] @@ last_size
            /\ no_change_count' = Unchanged(TempList(files), files, last_size, no_change_count)
            /\ streak' = [p \in TempFiles(files) |->
                             IF p \in DOMAIN last_size /\ last_size[p] = files[p]
                             THEN (IF p \in DOMAIN streak THEN streak[p] ELSE 0) + 1
                             ELSE 0]
            /\ IF Unchanged(TempList(files), files, last_size, no_change_count) > StuckLimit
               THEN wpc' = "done" /\ wret' = "False" /\ elapsed' = elapsed
               ELSE wpc' = wpc /\ wret' = wret /\ elapsed' = elapsed + 1
       ELSE /\ UNCHANGED << last_size, no_change_count, streak >>
            /\ IF ZipFiles(files) \ initial_files # {}
               THEN wpc' = "done" /\ wret' = "True" /\ elapsed' = elapsed
               ELSE wpc' = wpc /\ wret' = wret /\ elapsed' = elapsed + 1
    /\ UNCHANGED << files, initial_files >>
    /\ UNCHANGED notArchive

\* _wait_for_download_complete, lines 1056-1057.
CompleteTimedOut ==
    /\ wpc = "complete" /\ elapsed = CompletePolls
    /\ wpc' = "done"
    /\ wret' = "False"
    /\ UNCHANGED << files, elapsed, initial_files, last_size, no_change_count, streak >>
    /\ UNCHANGED notArchive

NextArchive ==
    \/ BrowserStartsDownload
    \/ BrowserWrites
    \/ BrowserFinishes
    \/ PollStart
    \/ StartTimedOut
    \/ SnapshotInitialFiles
    \/ PollComplete
    \/ CompleteTimedOut

SpecArchive == InitArchive /\ [][NextArchive]_vars

\* The steps of the two waits, which the code takes one after the other
\* (each turn of a loop ends in a sleep of 1 or 2 s).  What the browser does
\* is not the code's to schedule.
WaitStep ==
    PollStart \/ StartTimedOut \/ SnapshotInitialFiles \/ PollComplete \/ CompleteTimedOut

SpecArchiveLive == SpecArchive /\ WF_vars(WaitStep)

(***************************************************************************)
(* The callers of download.  review_executor (invoke.py) fetches the image *)
(* and the repository with two download_from_drive calls, looks the files  *)
(* up and hands over to orchestrate, which runs the container and the      *)
(* evaluation on two threads; batch_download makes one downloader and      *)
(* calls its download once per URL.  A download call is in progress from   *)
(* its begin to its return; it may launch, and quit, the driver kept in    *)
(* its downloader's self.driver.                                           *)
(***************************************************************************)
InitOrchestrate ==
    /\ ParkDownload /\ ParkDisk /\ ParkFile /\ ParkFolder /\ ParkForm /\ ParkArchive /\ ParkLogin /\ ParkListing /\ ParkMenu
    /\ opc \in {"tar", "batch"}
    /\ active = {} /\ browsers = {} /\ made = 0 /\ ncalls = 0
    /\ returned = << >>
    /\ threads = [t \in {"docker-thread", "llm-thread"} |-> "idle"]

\* download_files, lines 55-56, and download_from_drive, lines 1281-1282: a
\* downloader is constructed for the call and its download begins.
DownloadFromDrive ==
    /\ opc \in {"tar", "git"}
    /\ made' = made + 1
    /\ ncalls' = ncalls + 1
    /\ active' = active \cup {[call |-> ncalls + 1, downloader |-> made + 1]}
    /\ opc' = IF opc = "tar" THEN "tar_running" ELSE "git_running"
    /\ UNCHANGED << browsers, threads, returned >>
    /\ UNCHANGED notOrchestrate

\* The download of download_from_drive returns (its value is dropped by
\* download_files) or raises, as it does for a link that is no string; the
\* exception ends review_executor.
DownloadFromDriveReturns(raised, ok) ==
    /\ opc \in {"tar_running", "git_running"}
    /\ raised => ~ok
    /\ returned' = Append(returned, IF raised THEN "raised"
                                  ELSE IF ok THEN "True" ELSE "False")
    /\ active' = {}
    /\ opc' = IF raised THEN "raised"
              ELSE IF opc = "tar_running" THEN "git" ELSE "find"
    /\ UNCHANGED << browsers, made, ncalls, threads >>
    /\ UNCHANGED notOrchestrate

\* batch_download, line 1298: the one downloader of the batch.
BatchDownloader ==
    /\ opc = "batch"
    /\ made' = made + 1
    /\ opc' = "batch_loop"
    /\ UNCHANGED << active, browsers, ncalls, returned, threads >>
    /\ UNCHANGED notOrchestrate

\* A mutant of BatchDownloadCall: the next download is begun without
\* waiting for the running one.
BatchDownloadCallOverlapping ==
    /\ opc \in {"batch_loop", "batch_running"} /\ ncalls < MaxBatch
    /\ ncalls' = ncalls + 1
    /\ active' = active \cup {[call |-> ncalls + 1, downloader |-> made]}
    /\ opc' = "batch_running"
    /\ UNCHANGED << browsers, made, threads, returned >>
    /\ UNCHANGED notOrchestrate

\* batch_download, lines 1307-1310: downloader.download(url, output_path)
\* for the next URL.
BatchDownloadCall ==
    /\ opc = "batch_loop" /\ ncalls < MaxBatch
    /\ ncalls' = ncalls + 1
    /\ active' = active \cup {[call |-> ncalls + 1, downloader |-> made]}
    /\ opc' = "batch_running"
    /\ UNCHANGED << browsers, made, threads, returned >>
    /\ UNCHANGED notOrchestrate

\* batch_download, lines 1310-1314: the call returns, or raises and ends the
\* batch; after the last URL the loop ends (more is true if URLs are left).
BatchDownloadReturns(raised, more, ok) ==
    /\ opc = "batch_running"
    /\ more => ncalls < MaxBatch
    /\ raised => ~ok
    /\ returned' = Append(returned, IF raised THEN "raised"
                                  ELSE IF ok THEN "True" ELSE "False")
    /\ active' = {c \in active : c.call # ncalls}
    /\ opc' = IF raised THEN "raised" ELSE IF more THEN "batch_loop" ELSE "done"
    /\ UNCHANGED << browsers, made, ncalls, threads >>
    /\ UNCHANGED notOrchestrate

\* A download call in progress launches a driver and keeps it in the
\* self.driver of its downloader (_authenticate_with_browser, line 170;
\* _try_backend_folder_download, line 555).
BrowserLaunched ==
    /\ \E c \in active :
          /\ c.downloader \notin browsers
          /\ browsers' = browsers \cup {c.downloader}
    /\ UNCHANGED << opc, active, made, ncalls, returned, threads >>
    /\ UNCHANGED notOrchestrate

\* A download call in progress quits the driver of its downloader
\* (_authenticate_with_browser, lines 182-183).
BrowserQuit ==
    /\ \E c \in active :
          /\ c.downloader \in browsers
          /\ browsers' = browsers \ {c.downloader}
    /\ UNCHANGED << opc, active, made, ncalls, returned, threads >>
    /\ UNCHANGED notOrchestrate

\* review_executor, lines 68-70: the files are looked up; a missing one
\* raises FileNotFoundError.
FindFiles(found) ==
    /\ opc = "find"
    /\ opc' = IF found THEN "start" ELSE "raised"
    /\ UNCHANGED << active, browsers, made, ncalls, returned, threads >>
    /\ UNCHANGED notOrchestrate

\* orchestrate, lines 637-642: th1.start(), then th2.start().
StartThread(t) ==
    /\ opc = "start" /\ threads[t] = "idle"
    /\ t = "llm-thread" => threads["docker-thread"] # "idle"
    /\ threads' = [threads EXCEPT ![t] = "running"]
    /\ opc' = IF t = "llm-thread" THEN "join" ELSE opc
    /\ UNCHANGED << active, browsers, made, ncalls, returned >>
    /\ UNCHANGED notOrchestrate

\* operation_docker or operation_gemini_evaluate returns on its thread.
ThreadEnds(t) ==
    /\ threads[t] = "running"
    /\ threads' = [threads EXCEPT ![t] = "done"]
    /\ UNCHANGED << opc, active, browsers, made, ncalls, returned >>
    /\ UNCHANGED notOrchestrate

\* orchestrate, lines 644-645: th1.join(), then th2.join().
JoinThread(t) ==
    /\ opc = IF t = "docker-thread" THEN "join" ELSE "join_llm"
    /\ threads[t] = "done"
    /\ opc' = IF t = "docker-thread" THEN "join_llm" ELSE "done"
    /\ UNCHANGED << active, browsers, made, ncalls, returned, threads >>
    /\ UNCHANGED notOrchestrate

NextOrchestrate ==
    \/ DownloadFromDrive
    \/ \E raised \in BOOLEAN, ok \in BOOLEAN : DownloadFromDriveReturns(raised, ok)
    \/ BatchDownloader
    \/ BatchDownloadCall
    \/ \E raised \in BOOLEAN, more \in BOOLEAN, ok \in BOOLEAN :
          BatchDownloadReturns(raised, more, ok)
    \/ BrowserLaunched
    \/ BrowserQuit
    \/ \E found \in BOOLEAN : FindFiles(found)
    \/ \E t \in DOMAIN threads : StartThread(t)
    \/ \E t \in DOMAIN threads : ThreadEnds(t)
    \/ \E t \in DOMAIN threads : JoinThread(t)

SpecOrchestrate == InitOrchestrate /\ [][NextOrchestrate]_vars

(***************************************************************************)
(* The interactive login of one download call: _authenticate_with_browser  *)
(* launches a browser, checks whether it already shows the Drive UI and    *)
(* otherwise polls while the user, on their own, moves the browser from    *)
(* page to page.  The login is the one _validate_session makes after the   *)
(* probe was redirected, or the one download makes itself.                 *)
(***************************************************************************)
\* The turns of the loop of _wait_for_login (timeout=120, a sleep of 2 s
\* after each check), scaled down.
LoginPolls == 3

\* The pages of a running browser: the sign-in page of accounts.google.com,
\* a page with none of the Drive selectors, the Drive UI.
Shown == {"signin", "other", "drive"}

\* _is_logged_in, lines 227-254: False at once on the sign-in URL, True when
\* one of the selectors is found, False after the four waits of 8 s or when
\* anything raises.
_is_logged_in(shown) == shown = "drive"

InitLogin ==
    /\ ParkDownload /\ ParkDisk /\ ParkFile /\ ParkFolder /\ ParkForm /\ ParkArchive /\ ParkListing /\ ParkMenu
    /\ ParkOrchestrate
    /\ lpc = "launch"
    /\ site \in {"probe", "download"}
    /\ shows = "none"
    /\ waited = 0
    /\ lrets = << >>
    /\ dret = "running"

\* _authenticate_with_browser, lines 169-171 and 217-225: the browser is
\* launched and sent to drive.google.com; a launch that raises ends the
\* login with False.
LaunchBrowser(up, first) ==
    /\ lpc = "launch"
    /\ IF up
       THEN lpc' = "check" /\ shows' = first /\ lrets' = lrets
       ELSE lpc' = "returned" /\ shows' = shows /\ lrets' = Append(lrets, "no_browser")
    /\ UNCHANGED << site, waited, dret >>
    /\ UNCHANGED notLogin

\* The user signs in, or goes to another page.
UserNavigates(to) ==
    /\ lpc \in {"check", "poll"}
    /\ to # shows
    /\ shows' = to
    /\ UNCHANGED << lpc, site, waited, lrets, dret >>
    /\ UNCHANGED notLogin

\* _authenticate_with_browser, lines 174-186: the check before the wait.
CheckAlreadyLoggedIn ==
    /\ lpc = "check"
    /\ IF _is_logged_in(shows)
       THEN lpc' = "returned" /\ shows' = "none" /\ lrets' = Append(lrets, "already")
       ELSE lpc' = "poll" /\ shows' = shows /\ lrets' = lrets
    /\ waited' = 0
    /\ UNCHANGED << site, dret >>
    /\ UNCHANGED notLogin

\* _wait_for_login, lines 260-263, and _authenticate_with_browser, lines
\* 199-214: one turn of the loop.
PollLogin ==
    /\ lpc = "poll" /\ waited < LoginPolls
    /\ IF _is_logged_in(shows)
       THEN /\ lpc' = "returned" /\ shows' = "none"
            /\ lrets' = Append(lrets, "detected") /\ waited' = waited
       ELSE /\ lpc' = lpc /\ shows' = shows
            /\ lrets' = lrets /\ waited' = waited + 1
    /\ UNCHANGED << site, dret >>
    /\ UNCHANGED notLogin

\* _wait_for_login, line 265, and _authenticate_with_browser, lines 192-197:
\* the wait is over, the browser is quit and the login returns False.
LoginTimedOut ==
    /\ lpc = "poll" /\ waited = LoginPolls
    /\ lpc' = "returned"
    /\ shows' = "none"
    /\ lrets' = Append(lrets, "timeout")
    /\ UNCHANGED << site, waited, dret >>
    /\ UNCHANGED notLogin

\* The caller of the login.  _validate_session, lines 110-115, returns what
\* the login returned, and download (lines 1094, 1104-1108), with a session
\* that is not valid, logs in itself; download returns False when its own
\* login returned False.
LoginReturns ==
    /\ lpc = "returned"
    /\ LET ok == lrets[Len(lrets)] \in {"already", "detected"}
       IN  IF ok THEN lpc' = "transfer" /\ site' = site /\ dret' = dret
           ELSE IF site = "probe" THEN lpc' = "launch" /\ site' = "download" /\ dret' = dret
           ELSE lpc' = "done" /\ site' = site /\ dret' = "False"
    /\ UNCHANGED << shows, waited, lrets >>
    /\ UNCHANGED notLogin

\* download, lines 1110-1120: the transfer, and what it reports.
TransferAfterLogin(ok) ==
    /\ lpc = "transfer"
    /\ lpc' = "done"
    /\ dret' = IF ok THEN "True" ELSE "False"
    /\ UNCHANGED << site, shows, waited, lrets >>
    /\ UNCHANGED notLogin

\* The steps of the code, which follow one another on one thread.
LoginStep ==
    \/ \E first \in Shown : LaunchBrowser(TRUE, first)
    \/ LaunchBrowser(FALSE, "signin")
    \/ CheckAlreadyLoggedIn
    \/ PollLogin
    \/ LoginTimedOut
    \/ LoginReturns
    \/ \E ok \in BOOLEAN : TransferAfterLogin(ok)

NextLogin ==
    \/ LoginStep
    \/ \E to \in Shown : UserNavigates(to)

SpecLogin == InitLogin /\ [][NextLogin]_vars
SpecLoginLive == SpecLogin /\ WF_vars(LoginStep)

(***************************************************************************)
(* One listing, from what the response held to the entries returned.  A    *)
(* MIME string is the sequence of its parts; an item of a JSON body is the *)
(* function from its keys to their values; the markup is what re.findall   *)
(* returns for each of the three patterns, in the order of the page.       *)
(***************************************************************************)
\* The matches (of the three patterns together) and the items of a response.
MaxMatches == 3
MaxItems == 2

\* 'application/vnd.google-apps.folder'
FolderMime == << "application", "/vnd.google-apps.", "folder" >>
\* 'application/octet-stream'
OctetStream == << "application", "/octet-stream" >>
\* MIME strings of a response: the folder type, two that are not the folder
\* type and hold the word folder, a document type, the empty string.
AppMimes == {FolderMime, << "application", "/x-", "Folder" >>, << "application", "/pdf" >>}
AnyMimes == {FolderMime, << "text", "/", "folder", "-list" >>, << >>}

\* Identifiers of 21 characters, and one of 20, which the patterns match.
IdA == "AAAAAAAAAAAAAAAAAAAAA"
IdB == "BBBBBBBBBBBBBBBBBBBBB"
IdShort == "CCCCCCCCCCCCCCCCCCCC"
Ids == {IdA, IdB, IdShort}
Names == {"a", "b"}

\* Sequences of at most n elements of S.
SeqUpTo(S, n) == UNION {[1..k -> S] : k \in 0..n}

\* item.get(key, default)
Get(item, key, default) == IF key \in DOMAIN item THEN item[key] ELSE default

\* 'folder' in mime.lower()
HasFolderWord(mime) == \E k \in 1..Len(mime) : Lower(mime[k]) = "folder"

\* The items of a JSON body: id, and title, mimeType and fileSize or not.
RawItems ==
    {[k \in keys \cup {"id"} |->
         CASE k = "id" -> id [] k = "title" -> title
           [] k = "mimeType" -> mime [] OTHER -> 7] :
       keys \in SUBSET {"title", "mimeType", "fileSize"},
       id \in {IdA, IdB}, title \in {"a"}, mime \in AppMimes}

\* _fetch_via_query_api, lines 121-131, and _fetch_via_batch_api, lines
\* 270-280: the entries made of the items of the body.
RECURSIVE ItemsOfJson(_)
ItemsOfJson(data) ==
    IF data = << >> THEN << >>
    ELSE LET item == Head(data)
         IN  << [id |-> item["id"],
                 name |-> Get(item, "title", "unnamed"),
                 mimeType |-> Get(item, "mimeType", OctetStream),
                 size |-> Get(item, "fileSize", 0),
                 isFolder |-> ("mimeType" \in DOMAIN item /\ item["mimeType"] = FolderMime)] >>
             \o ItemsOfJson(Tail(data))

\* Whether an entry of items has the identifier (any(item['id'] == file_id ...)).
HasId(items, fid) == \E k \in 1..Len(items) : items[k].id = fid

\* _fetch_via_html_parsing, lines 170-182: the entries of pattern 1.
RECURSIVE Pattern1(_, _)
Pattern1(items, matches) ==
    IF matches = << >> THEN items
    ELSE LET match == Head(matches)
             fid == match[1]
             mime == match[3]
         IN  Pattern1(IF Len(fid) > 20
                      THEN Append(items, [id |-> fid, name |-> match[2],
                                          mimeType |-> mime, size |-> 0,
                                          isFolder |-> HasFolderWord(mime)])
                      ELSE items,
                      Tail(matches))

\* A mutant of Pattern2: an identifier that is listed already is added again.
RECURSIVE Pattern2Unchecked(_, _)
Pattern2Unchecked(items, matches2) ==
    IF matches2 = << >> THEN items
    ELSE LET match == Head(matches2)
             fid == match[1]
             mime == match[3]
         IN  Pattern2Unchecked(
                 IF Len(fid) > 20
                 THEN << [id |-> fid, name |-> match[2], mimeType |-> mime,
                          size |-> 0, isFolder |-> HasFolderWord(mime)] >> \o items
                 ELSE items,
                 Tail(matches2))

\* _fetch_via_html_parsing, lines 184-202: the entries of pattern 2.
RECURSIVE Pattern2(_, _)
Pattern2(items, matches2) ==
    IF matches2 = << >> THEN items
    ELSE LET match == Head(matches2)
             fid == match[1]
             mime == match[3]
         IN  Pattern2(IF Len(fid) > 20 /\ ~HasId(items, fid)
                      THEN Append(items, [id |-> fid, name |-> match[2],
                                          mimeType |-> mime, size |-> 0,
                                          isFolder |-> HasFolderWord(mime)])
                      ELSE items,
                      Tail(matches2))

\* _fetch_via_html_parsing, lines 204-218: the entries of pattern 3.
RECURSIVE Pattern3(_, _)
Pattern3(items, matches3) ==
    IF matches3 = << >> THEN items
    ELSE LET match == Head(matches3)
             fid == match[1]
         IN  Pattern3(IF Len(fid) > 20 /\ ~HasId(items, fid)
                      THEN Append(items, [id |-> fid, name |-> match[2],
                                          mimeType |-> OctetStream, size |-> 0,
                                          isFolder |-> FALSE])
                      ELSE items,
                      Tail(matches3))

\* _fetch_via_html_parsing, lines 220-228: the first entry of each identifier.
UniqueItems(items) ==
    SelectSeq([k \in 1..Len(items) |-> [k |-> k, item |-> items[k]]],
              LAMBDA e : \A j \in 1..(e.k - 1) : items[j].id # e.item.id)

\* _fetch_via_html_parsing, lines 168-228: the entries of the page.
ItemsOfHtml(matches, matches2, matches3) ==
    LET unique_items == UniqueItems(Pattern3(Pattern2(Pattern1(<< >>, matches), matches2),
                                             matches3))
    IN  [k \in 1..Len(unique_items) |-> unique_items[k].item]

InitListing ==
    /\ ParkDownload /\ ParkDisk /\ ParkFile /\ ParkFolder /\ ParkForm /\ ParkArchive /\ ParkMenu
    /\ ParkOrchestrate /\ ParkLogin /\ ParkMenu
    /\ \/ \E data \in SeqUpTo(RawItems, MaxItems) :
             raw = [kind |-> "json", items |-> data]
       \/ \E n1 \in 0..MaxMatches : \E n2 \in 0..(MaxMatches - n1) :
             \E n3 \in 0..(MaxMatches - n1 - n2) :
                \E matches \in [1..n1 -> Ids \X Names \X AppMimes],
                   matches2 \in [1..n2 -> Ids \X Names \X AnyMimes],
                   matches3 \in [1..n3 -> Ids \X Names] :
                   raw = [kind |-> "html", matches |-> matches, matches2 |-> matches2,
                          matches3 |-> matches3]
    /\ by = "none"
    /\ listing = << >>

\* _fetch_via_query_api on a response of status 200 with a JSON body.
ListViaQueryApi ==
    /\ by = "none" /\ raw.kind = "json"
    /\ by' = "query"
    /\ listing' = ItemsOfJson(raw.items)
    /\ UNCHANGED raw
    /\ UNCHANGED notListing

\* _fetch_via_html_parsing on a response of status 200.
ListViaHtmlParsing ==
    /\ by = "none" /\ raw.kind = "html"
    /\ by' = "html"
    /\ listing' = ItemsOfHtml(raw.matches, raw.matches2, raw.matches3)
    /\ UNCHANGED raw
    /\ UNCHANGED notListing

\* _fetch_via_batch_api on a response of status 200 with a JSON body.
ListViaBatchApi ==
    /\ by = "none" /\ raw.kind = "json"
    /\ by' = "batch"
    /\ listing' = ItemsOfJson(raw.items)
    /\ UNCHANGED raw
    /\ UNCHANGED notListing

NextListing ==
    \/ ListViaQueryApi
    \/ ListViaHtmlParsing
    \/ ListViaBatchApi

SpecListing == InitListing /\ [][NextListing]_vars

(***************************************************************************)
(* The Download entry of the context menu, in the browser folder download  *)
(***************************************************************************)
\* download_selectors: the seven XPath expressions, by their position.
download_selectors == 1..7
\* What trying a selector does: the wait for a clickable element times out
\* (or the scroll raises), ARROW_DOWN goes out and ENTER raises, or both
\* keys go out.
SelectorOutcomes == {"timeout", "enter_raises", "ok"}

InitMenu ==
    /\ ParkDownload /\ ParkDisk /\ ParkFile /\ ParkFolder /\ ParkForm /\ ParkArchive /\ ParkOrchestrate /\ ParkLogin /\ ParkListing
    /\ mpc = "menu"
    /\ on_page \in [download_selectors -> SelectorOutcomes]
    /\ at = 0 /\ attempts = << >> /\ sent = << >>
    /\ download_found = FALSE /\ mret = "running"

\* menu_clicked = find_and_click_folder(driver): without the context menu
\* the fallback reports "All download methods failed".
FindAndClickFolder(menu_clicked) ==
    /\ mpc = "menu"
    /\ IF menu_clicked
       THEN mpc' = "loop" /\ at' = 1 /\ UNCHANGED mret
       ELSE mpc' = "done" /\ mret' = "False" /\ UNCHANGED at
    /\ UNCHANGED << on_page, attempts, sent, download_found >>
    /\ UNCHANGED notMenu

\* One turn of "for selector in download_selectors": the try block and the
\* assignment after it, which "except: continue" skips.
TrySelector ==
    /\ mpc = "loop" /\ at \in download_selectors
    /\ attempts' = Append(attempts, at)
    /\ sent' = CASE on_page[at] = "timeout" -> sent
                 [] on_page[at] = "enter_raises" -> Append(sent, "ARROW_DOWN")
                 [] OTHER -> sent \o << "ARROW_DOWN", "ENTER" >>
    /\ download_found' = (download_found \/ on_page[at] = "ok")
    /\ at' = at + 1
    /\ UNCHANGED << mpc, on_page, mret >>
    /\ UNCHANGED notMenu

\* The loop has run out of selectors: "if download_found:".
SelectorsExhausted ==
    /\ mpc = "loop" /\ at \notin download_selectors
    /\ IF download_found
       THEN mpc' = "wait" /\ UNCHANGED mret
       ELSE mpc' = "done" /\ mret' = "False"
    /\ UNCHANGED << on_page, at, attempts, sent, download_found >>
    /\ UNCHANGED notMenu

\* _wait_for_download_start and, if it returns True, the result of
\* _wait_for_download_complete; otherwise "All download methods failed".
WaitForDownload(started, complete) ==
    /\ mpc = "wait"
    /\ mpc' = "done"
    /\ mret' = IF started /\ complete THEN "True" ELSE "False"
    /\ UNCHANGED << on_page, at, attempts, sent, download_found >>
    /\ UNCHANGED notMenu

NextMenu ==
    \/ \E menu_clicked \in BOOLEAN : FindAndClickFolder(menu_clicked)
    \/ TrySelector
    \/ SelectorsExhausted
    \/ \E started, complete \in BOOLEAN : WaitForDownload(started, complete)

SpecMenu == InitMenu /\ [][NextMenu]_vars

(***************************************************************************)
(* Claims about batch_download and download                                *)
(***************************************************************************)
Range(s) == {s[k] : k \in 1..Len(s)}

Malformed(u) == _extract_file_id(u) = None

\* The last completed download call made for URL u.
LastCall(u) ==
    CHOOSE k \in 1..Len(callLog) :
        callLog[k].url = u /\ \A j \in (k + 1)..Len(callLog) : callLog[j].url # u

\* C1: batch_download never raises when one of its URLs is malformed; the
\* malformed URL is mapped to False, and every URL of the list, the ones after
\* the malformed one included, is attempted in order and mapped to the outcome
\* of its own (latest) download.
C1_MalformedUrlIsolated ==
    /\ bpc # "raised"
    /\ (bpc = "returned" /\ \E k \in 1..Len(urls) : Malformed(urls[k])) =>
          /\ Len(callLog) = Len(urls)
          /\ \A k \in 1..Len(urls) :
                /\ callLog[k].url = urls[k]
                /\ urls[k] \in DOMAIN results
                /\ Malformed(urls[k]) => results[urls[k]] = FALSE
                /\ ~Malformed(urls[k]) =>
                      results[urls[k]] = callLog[LastCall(urls[k])].ret

\* The scenario of the specification: [ok, malformed, ok] has returned
\* {url1: True, url2: False, url3: True}.
C1_Witness ==
    /\ bpc = "returned"
    /\ urls = << << FileView, "A" >>, << FileView >>, << FolderView, "B" >> >>
    /\ results[<< FileView, "A" >>] = TRUE
    /\ results[<< FileView >>] = FALSE
    /\ results[<< FolderView, "B" >>] = TRUE

\* C2: batch_download calls download once per element of urls, in list order,
\* and the returned map reports the outcome of every one of these requests,
\* those of a URL that appears more than once included.
C2_EveryOutcomeReported ==
    bpc = "returned" =>
        /\ Len(callLog) = Len(urls)
        /\ \A k \in 1..Len(urls) :
              /\ callLog[k].url = urls[k]
              /\ urls[k] \in DOMAIN results
              /\ results[urls[k]] = callLog[k].ret

\* The URL shapes of C3.  A folder URL holds the folder view '/folders/<id>';
\* a file URL holds a file view, an id= query or an open link and no folder
\* marker; an unrecognised URL holds no marker followed by an identifier.
FirstIdAfter(m, u) == u[Min(MatchPositions(m, u)) + 1]
FolderShape(u) == MatchPositions({FolderView}, u) # {}
FileShape(u) ==
    /\ \/ MatchPositions({FileView}, u) # {}
       \/ MatchPositions({IdQuery}, u) # {}
       \/ MatchPositions({OpenLink}, u) # {}
    /\ \A k \in 1..Len(u) : u[k] \notin {FolderView, FolderViewUpper}
Unrecognised(u) ==
    \A k \in 1..(Len(u) - 1) : ~(u[k] \in MarkerTokens \ {FolderViewUpper} /\ u[k + 1] \in IdTokens)
FirstPatternId(u) ==
    IF MatchPositions({FileView}, u) # {} THEN FirstIdAfter({FileView}, u)
    ELSE IF MatchPositions({FolderView}, u) # {} THEN FirstIdAfter({FolderView}, u)
    ELSE IF MatchPositions({IdQuery, OpenLink}, u) # {} THEN FirstIdAfter({IdQuery, OpenLink}, u)
    ELSE IF MatchPositions({OpenLink}, u) # {} THEN FirstIdAfter({OpenLink}, u)
    ELSE None

\* C3: a URL of folder shape is classified Folder and dispatched to the folder
\* path, a URL of file shape is classified File and dispatched to the file
\* path, a URL from which no pattern extracts an identifier makes download
\* return False with no session work and no transfer, and the identifier is
\* the match of the first pattern in the order file view, folder view, id=
\* query, open link.
C3_Classification ==
    url # << >> =>
        /\ file_id = FirstPatternId(url)
        /\ Unrecognised(url) =>
              /\ file_id = None
              /\ pc \in {"ret", "idle"} /\ ret = FALSE /\ trace = << >>
        /\ FolderShape(url) =>
              /\ "FILE" \notin Range(trace) /\ "transfer" \notin Range(trace)
              /\ pc # "file"
              /\ pc \in {"ret", "idle"} /\ ret => "browser_download" \in Range(trace)
        /\ FileShape(url) =>
              /\ "FOLDER" \notin Range(trace) /\ "browser_download" \notin Range(trace)
              /\ pc \notin {"folder_backend", "folder_browser"}
              /\ pc \in {"ret", "idle"} /\ ret => "transfer" \in Range(trace)

\* A URL holding a folder view before a file view: the file view's identifier
\* is extracted, and the download went down the folder path.
C3_Witness ==
    /\ url = << FolderView, "B", FileView, "A" >>
    /\ file_id = "A"
    /\ "FOLDER" \in Range(trace)
    /\ pc = "ret" /\ ret

TransferEvents == {"transfer", "browser_download"}
ProbeEvents == {"probe_ok", "probe_fail", "probe_redirect"}
LoginEvents == {"login_ok", "login_fail"}

\* No transfer without an earlier successful probe or login in the same call.
Gated ==
    \A p \in 1..Len(trace) :
        trace[p] \in TransferEvents =>
            \E q \in 1..(p - 1) : trace[q] \in {"probe_ok", "login_ok"}
\* Every login of the call comes after a probe of the call.
ProbeFirst ==
    \A p \in 1..Len(trace) :
        trace[p] \in LoginEvents => \E q \in 1..(p - 1) : trace[q] \in ProbeEvents
PastSessionCheck ==
    pc \in {"dispatch", "file", "folder_backend", "folder_browser", "ret", "idle"}
\* The probe is skipped, the login runs, and a failed login ends the call
\* with False and no transfer.
LoginOnly ==
    /\ Range(trace) \cap ProbeEvents = {}
    /\ PastSessionCheck => Range(trace) \cap LoginEvents # {}
    /\ "login_fail" \in Range(trace) =>
          /\ pc \in {"ret", "idle"} /\ ret = FALSE
          /\ Range(trace) \cap TransferEvents = {}

\* C4 as stated: transfers are gated by a successful probe or login; with
\* force_reauth false and a cookie file present the probe is tried before any
\* login; with force_reauth true or no cookie file the probe is skipped, the
\* login always runs, and its failure ends the call with False.
C4_Original ==
    (url # << >> /\ file_id # None) =>
        /\ Gated
        /\ (~force_reauth /\ file0 # Absent) => ProbeFirst
        /\ (force_reauth \/ file0 = Absent) => LoginOnly

\* C4 (amended): in every download call that extracts an identifier, transfers
\* are gated by a successful probe or login of the same call; with force_reauth
\* false and a cookie file that loads as a non-empty cookie list the probe is
\* tried before any login; with force_reauth true, no cookie file, or a cookie
\* file that cannot be loaded, the probe is skipped, the login always runs, and
\* its failure ends the call with False and no transfer.
C4_SessionGate ==
    (url # << >> /\ file_id # None) =>
        /\ Gated
        /\ (~force_reauth /\ LoadOk(file0)) => ProbeFirst
        /\ (force_reauth \/ ~LoadOk(file0)) => LoginOnly

\* A call that found an unloadable cookie file, logged in, and transferred.
C4_Witness ==
    /\ ~force_reauth /\ file0 = Corrupt
    /\ trace = << "load_fail", "login_ok", "FILE", "transfer" >>
    /\ pc = "ret" /\ ret

(***************************************************************************)
(* Claims about the single-file downloads                                  *)
(***************************************************************************)
LastRun == runLog[Len(runLog)]

\* C5: after a single-file download has returned (_download_file_direct and
\* _download_single_file alike), either it returned success and a non-empty
\* file is at the destination, or it returned failure and no file it opened
\* for writing is left at the destination, also when the stream raised after
\* some chunks were written.
C5_SuccessOrNoPartialFile ==
    runs >= 1 =>
        IF LastRun.ret
        THEN Dest \in DOMAIN files /\ files[Dest] > 0
        ELSE ~(LastRun.opened /\ Dest \in DOMAIN files)

\* The body of the streamed response ends normally without a single byte.
ZeroByteStream ==
    source.stream.end = "eof" /\ Bytes(source.stream.chunks) = 0

\* C6: when the stream of a download yields zero bytes, then after the call
\* the destination file does not exist, the call has returned False, and
\* (where the lists exist, in FolderDownloader) the call has added the file to
\* failed_files and nothing to downloaded_files, which does not hold it.
C6_ZeroByteGuard ==
    (runs >= 1 /\ LastRun.opened /\ ZeroByteStream) =>
        /\ Dest \notin DOMAIN files
        /\ ~LastRun.ret
        /\ variant = "single" =>
              /\ failed_files = Append(LastRun.before.failed_files,
                                       Substitute(file_name, SingleUnsafe))
              /\ downloaded_files = LastRun.before.downloaded_files
              /\ Dest \notin Range(downloaded_files)

\* A body of two empty chunks came down on a destination that held a file.
C6_Witness ==
    /\ runs >= 1 /\ LastRun.opened /\ ZeroByteStream
    /\ variant = "single"
    /\ source.stream.chunks = << 0, 0 >>
    /\ Dest \in DOMAIN LastRun.before.files
    /\ Dest \notin DOMAIN files
    /\ failed_files # << >>

\* C8: when a download that succeeded is run again against the same source
\* and destination, it succeeds again, and the file it leaves has the same
\* non-zero byte count as after the run before: the file was overwritten.
C8_Idempotent ==
    \A k \in 2..runs :
        runLog[k - 1].ret =>
            /\ runLog[k].ret
            /\ Dest \in DOMAIN runLog[k].after
            /\ runLog[k].after[Dest] > 0
            /\ runLog[k].after[Dest] = runLog[k - 1].after[Dest]

\* Two successful runs of three bytes each over a file that was there before.
C8_Witness ==
    /\ runs = 2 /\ runLog[1].ret /\ runLog[2].ret
    /\ Dest \in DOMAIN runLog[1].before.files
    /\ source.stream.chunks = << 1, 2 >>
    /\ files[Dest] = 3

(***************************************************************************)
(* Claims about the folder traversal                                       *)
(***************************************************************************)
\* The files of the remote tree below folder f, each with its relative path.
RECURSIVE RemoteFiles(_, _, _)
RemoteFiles(t, f, prefix) ==
    UNION { IF it.isFolder
            THEN RemoteFiles(t, it.id, Append(prefix, it.name))
            ELSE {[id |-> it.id, path |-> Append(prefix, it.name)]} :
            it \in Range(t[f]) }

\* Every listing returned the entries of its folder and every file download
\* returned True.
AllSucceeded ==
    \A k \in 1..Len(flog) : flog[k].ev \in {"listed", "file"} => flog[k].ok

\* C7: when every listing and every file download has succeeded, the
\* traversal of a remote tree of N files leaves exactly N local files, each
\* at its remote relative path under the output root, with N entries in
\* downloaded_files and none in failed_files.
C7_RoundTrip ==
    (root_ret # "running" /\ AllSucceeded) =>
        /\ Cardinality(DOMAIN files) = Cardinality(RemoteFiles(tree, "root", << >>))
        /\ DOMAIN files = {r.path : r \in RemoteFiles(tree, "root", << >>)}
        /\ Len(downloaded_files) = Cardinality(RemoteFiles(tree, "root", << >>))
        /\ Len(failed_files) = 0

StrategyOrder == << "query", "html", "batch" >>

FallbackOrdered(fr) ==
    /\ Len(fr.listLog) <= 3
    /\ \A k \in 1..Len(fr.listLog) : fr.listLog[k].strategy = StrategyOrder[k]
    /\ \A k \in 1..(Len(fr.listLog) - 1) : fr.listLog[k].result = << >>
    /\ fr.phase = "work" =>
          /\ fr.listLog # << >>
          /\ fr.items # << >>
          /\ fr.items = fr.listLog[Len(fr.listLog)].result
    /\ fr.phase = "unlisted" =>
          /\ Len(fr.listLog) = 3
          /\ fr.items = << >>
          /\ fr.listLog[3].result = << >>

\* C9: in every listing the strategies are invoked in the order structured
\* query, markup extraction, batch endpoint; a strategy is invoked only after
\* all the ones before it returned an empty list; the listing is the list of
\* the first strategy that returned a non-empty one (empty when none did).
\* So after a non-empty structured query the other two are never invoked.
C9_FallbackOrder ==
    \A k \in 1..Len(stack) : FallbackOrdered(stack[k])

\* The structured query returned nothing and the markup extraction one entry
\* of two: the folder is processed with that entry, the batch endpoint unused.
C9_Witness ==
    /\ tree = TreeFlat
    /\ Len(stack) = 1
    /\ stack[1].phase = "work"
    /\ stack[1].listLog = << Call("query", << >>),
                             Call("html", << FileEntry("f1", << "a" >>) >>) >>
    /\ stack[1].items = << FileEntry("f1", << "a" >>) >>

(***************************************************************************)
(* Claims about the interstitial page                                      *)
(***************************************************************************)
IsNamedHidden(f) == f.type = "hidden" /\ f.name # ""

\* C10: when the page holds the download form, the follow-up URL is the form
\* action, '?', and the name=value pairs of all the hidden fields of the form
\* in document order, none omitted.
C10_AllHiddenFields ==
    (page.form /\ next_url # Pending) =>
        next_url = << FormAction, "?" >> \o urlencode(SelectSeq(page.inputs, IsNamedHidden))

(***************************************************************************)
(* Claims about the folder path of download                                *)
(***************************************************************************)
\* download_folder_recursive has been entered for the root folder.
TraversalRan ==
    \E k \in 1..Len(flog) : flog[k].ev = "enter" /\ flog[k].id = "root"

\* The listing of the root folder was settled and the outermost call
\* returned False: all three strategies returned empty for the root.
RootUnlisted ==
    /\ root_ret = "False"
    /\ \E k \in 1..Len(flog) : flog[k].ev = "listed" /\ flog[k].id = "root"

\* C11: for a folder URL, download runs the recursive per-file traversal
\* before anything else of the folder path, and the browser-driven archive
\* download starts only after all three listing strategies returned empty for
\* the root folder.
C11_TraversalBeforeBrowser ==
    (url # << >> /\ file_id # None /\ _is_folder(url)) =>
        /\ pc \in {"folder_browser", "ret"} /\ "FOLDER" \in Range(trace) => TraversalRan
        /\ "browser_download" \in Range(trace) => RootUnlisted

(***************************************************************************)
(* Claims about error handling in the traversal                            *)
(***************************************************************************)
\* The traversal has attempted the listed item: a file was handed to
\* _download_single_file, a subfolder to download_folder_recursive.
Attempted(item) ==
    \E k \in 1..Len(flog) :
        /\ flog[k].id = item.id
        /\ flog[k].ev \in (IF item.isFolder THEN {"enter", "mkdir_raised"} ELSE {"file"})

\* C12: a per-file or per-folder error never aborts sibling work: whenever a
\* call of download_folder_recursive returns, every item that was listed for
\* its folder has been attempted, whatever happened to the items before it (a
\* file that failed with a bad status, zero bytes or an exception, a subfolder
\* that was unlisted or that raised).
C12_SiblingsStillAttempted ==
    [][(stack # << >> /\ Len(stack') < Len(stack)) =>
          \A n \in 1..Len(Top.items) : Attempted(Top.items[n])]_vars

\* A file that is on disk with the name of the first subfolder makes that
\* subfolder raise, and the second subfolder was entered and its file
\* downloaded all the same; the root call has returned.
C12_Witness ==
    /\ tree = TreeClash
    /\ root_ret = "True"
    /\ \E k \in 1..Len(flog) : flog[k] = Event("mkdir_raised", "d1", FALSE)
    /\ \E k \in 1..Len(flog) : flog[k] = Event("file", "f3", TRUE)

\* The entries of the remote tree, and the one with identifier id.
Entries(t) == UNION {Range(t[f]) : f \in DOMAIN t}
EntryOf(id) == CHOOSE e \in Entries(tree) : e.id = id

\* The names under which failed_files could tell of the item: its own name,
\* raw or sanitised, and for a subfolder the names of the files listed in it.
NamesFor(e) ==
    {e.name, Substitute(e.name, SingleUnsafe)}
        \cup (IF e.isFolder
              THEN UNION {{c.name, Substitute(c.name, SingleUnsafe)} :
                              c \in {c \in Range(tree[e.id]) : ~c.isFolder}}
              ELSE {})

RecordedFailed(e) == \E n \in 1..Len(failed_files) : failed_files[n] \in NamesFor(e)

\* The calls of download_folder_recursive on subfolders that ended without
\* attempting any file: the listing was empty, or the call raised.
LostSubfolders ==
    {flog[k].id : k \in {k \in 1..Len(flog) :
                            flog[k].ev = "done" /\ ~flog[k].ok /\ flog[k].id # "root"}}

\* The files whose download failed.
FailedDownloads ==
    {flog[k].id : k \in {k \in 1..Len(flog) : flog[k].ev = "file" /\ ~flog[k].ok}}

\* The part of C13 about files: a file whose download failed is recorded in
\* failed_files.
FailedFilesRecorded ==
    \A id \in FailedDownloads : RecordedFailed(EntryOf(id))

\* C13: every failure of a traversal is surfaced: once the root call has
\* returned, a subfolder that could not be listed or whose processing raised
\* is reflected in failed_files or in the returned boolean (False), and every
\* file whose download failed has been deleted or is recorded in failed_files.
C13_FailuresSurfaced ==
    root_ret # "running" =>
        /\ \A id \in LostSubfolders :
              root_ret = "False" \/ RecordedFailed(EntryOf(id))
        /\ FailedFilesRecorded

(***************************************************************************)
(* Claims about the browser drivers and the interactive login              *)
(***************************************************************************)
\* C14: when download returns, every browser driver instance launched
\* during that call has been quit, whichever of the interactive login (with
\* or without return_driver), the backend folder attempt and the browser
\* folder download launched it.
C14_DriversQuit ==
    pc = "ret" => alive \subseteq {Earlier}

(***************************************************************************)
(* Claims about the archive of the browser folder download                 *)
(***************************************************************************)
\* C15: the browser-driven archive path reports success only if an archive
\* file that was not in the output directory before the download is there
\* and is not empty.
C15_ArchiveNewAndNonEmpty ==
    wret = "True" =>
        \E p \in ZipFiles(files) : p # OldZip /\ files[p] > 0

\* The interactive logins download has run after the probe was redirected
\* to the login page.
LoginsAfterRedirect ==
    {p \in 1..Len(trace) :
        trace[p] \in LoginEvents /\ \E q \in 1..(p - 1) : trace[q] = "probe_redirect"}

\* C16: within one download call a response that redirects to the login
\* page triggers exactly one interactive re-authentication attempt; if that
\* attempt fails the call fails (False, no transfer) without a second one.
C16_OneReauthentication ==
    "probe_redirect" \in Range(trace) =>
        /\ Cardinality(LoginsAfterRedirect) <= 1
        /\ pc # "relogin" => Cardinality(LoginsAfterRedirect) = 1
        /\ "login_fail" \in Range(trace) =>
              /\ pc \in {"ret", "idle"} /\ ret = FALSE
              /\ Range(trace) \cap TransferEvents = {}

\* The call's last step was an interactive login that reported success.
LoginJustSucceeded ==
    trace # << >> /\ trace[Len(trace)] \in {"login_ok", "browser_login_ok"}

\* C17: whenever the interactive login reports success, the cookie file
\* holds the cookies extracted from that browser, the session's cookie jar
\* holds exactly those cookies, and, unless the caller asked for the driver,
\* the browser instance has been quit.
C17_LoginLeavesCookies ==
    LoginJustSucceeded =>
        /\ extracted.ok
        /\ cookie_file = Listed(extracted.cookies)
        /\ jar = extracted.cookies
        /\ trace[Len(trace)] = "login_ok" => Driver("login") \notin alive

\* C18: saving cookies never leaves the cookie file truncated: when
\* _save_cookies has failed, the file does not exist, or holds what it held
\* before the save, or holds the complete new cookie set.
C18_SaveNeverTruncates ==
    (trace # << >> /\ trace[Len(trace)] = "login_ok" /\ extracted.save # "saved") =>
        \/ cookie_file = Absent
        \/ cookie_file = file0
        \/ cookie_file = Listed(extracted.cookies)

(***************************************************************************)
(* Claims about the pages a single-file download may be answered with      *)
(***************************************************************************)
\* The response is an HTML page of the login boundary or of an exhausted
\* quota.
AuthOrQuotaPage(r) ==
    ~r.raised /\ r.status = 200 /\ r.html /\ r.marks \cap {"accounts", "quota"} # {}

\* C19: when the response to be downloaded is an HTML page that indicates an
\* authentication redirect or quota exhaustion, the single-file download (of
\* the file path and of the folder traversal alike) returns False, records
\* no success, writes no file from that body, and issues no request beyond
\* those of its one pass.
C19_AuthQuotaPageFails ==
    (runs >= 1 /\ AuthOrQuotaPage(Final(source))) =>
        /\ ~LastRun.ret
        /\ ~LastRun.opened
        /\ files = LastRun.before.files
        /\ downloaded_files = LastRun.before.downloaded_files
        /\ LastRun.requests = Requests(source)

\* The part of C19 that the code keeps: the download of the file path.
DirectAuthQuotaPageFails ==
    variant = "direct" => C19_AuthQuotaPageFails

(***************************************************************************)
(* Claims about the listing                                                *)
(***************************************************************************)
\* The listing of the frame did not raise: the strategy asked last, if its
\* request raised, was answered with a bad status or with an unparsable
\* body, returned the empty list; a call that raised did so before any
\* listing; and when all three strategies returned the empty list the result
\* is the empty list.
ListingNeverRaises(fr) ==
    /\ (fr.answer = "none") <=> (fr.listLog = << >>)
    /\ fr.answer \in {"raise", "status", "garbage"} =>
          fr.listLog[Len(fr.listLog)].result = << >>
    /\ fr.phase = "raised" => fr.listLog = << >>
    /\ (Len(fr.listLog) = 3 /\ \A k \in 1..3 : fr.listLog[k].result = << >>) =>
          fr.phase = "unlisted" /\ fr.items = << >>

\* C20: the listing of a folder never raises: if all three strategies yield
\* no items, or any of them fails with a bad status, an unparsable body or
\* an exception, the failing strategy counts as empty, and the result is the
\* empty list when none produced items.
C20_ListingNeverRaises ==
    \A k \in 1..Len(stack) : ListingNeverRaises(stack[k])

\* The structured query and the folder page gave nothing and the request of
\* the batch endpoint raised: the root folder is unlisted, with the empty
\* list.
C20_Witness ==
    /\ Len(stack) = 1
    /\ Len(stack[1].listLog) = 3
    /\ stack[1].answer = "raise"
    /\ stack[1].phase = "unlisted"
    /\ stack[1].items = << >>

(***************************************************************************)
(* Claims about the browser                                                *)
(***************************************************************************)
\* The events of the running download call that need a browser: a login,
\* and the browser download of a folder.
Occurred(events) == \E k \in 1..Len(trace) : trace[k] \in events
NeededBrowser == Occurred({"login_ok", "login_fail", "browser_download"})

\* C21: if the browser cannot be initialized (no launch of the call
\* succeeds), every path that needs the interactive login or the browser
\* download ends with download returning False, and on a path that needed
\* the login no transfer is requested: neither the file request nor a folder
\* download is started.
C21_NoBrowserFails ==
    (pc = "ret" /\ launched = 0 /\ NeededBrowser) =>
        /\ ret = FALSE
        /\ Occurred({"login_fail"}) =>
              ~Occurred({"transfer", "backend_false", "browser_download", "FILE", "FOLDER"})

\* The probe was redirected to the login page, the browser could not be
\* launched for the login of _validate_session nor for the login of
\* download, and the call has returned.
C21_Witness ==
    /\ pc = "ret" /\ launched = 0 /\ ret = FALSE
    /\ \E k \in 1..Len(trace) - 2 :
          /\ trace[k] = "probe_redirect"
          /\ trace[k + 1] = "login_fail"
          /\ trace[k + 2] = "login_fail"
          /\ k + 2 = Len(trace)

\* The download calls in progress that work with the driver of downloader d.
UsersOf(d) == {c \in active : c.downloader = d}

\* C22: no driver is used by two download calls at the same time: each
\* download_from_drive call has a downloader of its own, the calls of
\* batch_download follow one another, and both downloads of review_executor
\* have returned when the threads of orchestrate are started.
C22_NoSharedDriver ==
    /\ \A d \in browsers : Cardinality(UsersOf(d)) <= 1
    /\ \A c1, c2 \in active : c1.downloader = c2.downloader => c1 = c2
    /\ (\E t \in DOMAIN threads : threads[t] # "idle") => active = {}
    /\ opc \in {"tar_running", "git_running"} =>
          \A c \in active : c.downloader = made /\ c.call = ncalls

\* The second call of a batch works with the driver the first call left in
\* the downloader they share.
C22_Witness ==
    /\ opc = "batch_running" /\ ncalls = 2
    /\ \E c \in active : c.call = 2 /\ c.downloader \in browsers

(***************************************************************************)
(* Claims about the requests of a single-file download                     *)
(***************************************************************************)
\* The first response is an HTML page with the warning, and the page holds
\* a form that parses or a confirm/uuid token.
FollowUpResolved ==
    /\ ~source.first.raised /\ source.first.html
    /\ source.first.marks \cap {"download-form", "virus"} # {}
    /\ source.first.marks \cap {"download-form", "confirm"} # {}

\* C23: a single-file download issues at most two requests: the initial one
\* and, only if the first response is an interstitial from which a URL was
\* resolved, exactly one follow-up; never a third, even when the follow-up
\* response is an interstitial again.
C23_AtMostTwoRequests ==
    \A k \in 1..Len(runLog) :
        /\ runLog[k].requests \in {1, 2}
        /\ runLog[k].requests = 2 <=> FollowUpResolved

\* A download of the folder traversal whose follow-up request was answered
\* with the interstitial again: two requests, and the page is what is left.
C23_Witness ==
    /\ runLog # << >> /\ variant = "single"
    /\ FollowUpResolved
    /\ source.second = Html({"download-form"})
    /\ runLog[Len(runLog)].requests = 2

(***************************************************************************)
(* Claims about the order of the traversal                                 *)
(***************************************************************************)
\* The listing of the frame has been asked for (and may have ended).
ListingBegun(fr) == fr.phase \in {"query", "html", "batch", "work", "unlisted"}

\* C24: the directory of a folder is created before any listing strategy is
\* invoked for it, and it stays: whenever the listing of an active call has
\* begun, whatever it gave, the directory of its relative path is on disk,
\* and no step of the traversal removes a directory.
C24_DirectoryBeforeListing ==
    /\ [](\A k \in 1..Len(stack) :
              ListingBegun(stack[k]) => stack[k].current_path \in dirs)
    /\ [][dirs \subseteq dirs']_vars

\* A subfolder whose three strategies all failed: it is unlisted, and its
\* directory is there.
C24_Witness ==
    /\ Len(stack) = 2
    /\ stack[2].phase = "unlisted"
    /\ Len(stack[2].listLog) = 3
    /\ stack[2].answer # "items"
    /\ stack[2].current_path # << >>
    /\ stack[2].current_path \in dirs

\* The call for the subfolder has returned.
Finished(item) == \E k \in 1..Len(flog) : flog[k].id = item.id /\ flog[k].ev = "done"

\* The call fr waits for the call sub it made for a subfolder: it has its
\* listing, every file of it was handed to _download_single_file, sub is
\* the call for the subfolder it reached last, and the calls for the
\* subfolders before that one have returned.
WaitsFor(fr, sub) ==
    /\ fr.phase = "work"
    /\ fr.nfiles = Len(FilesOf(fr))
    /\ \A n \in 1..Len(FilesOf(fr)) : Attempted(FilesOf(fr)[n])
    /\ fr.nfolders \in 1..Len(FoldersOf(fr))
    /\ sub.folder_id = FoldersOf(fr)[fr.nfolders].id
    /\ \A n \in 1..(fr.nfolders - 1) : Finished(FoldersOf(fr)[n])

\* C25: the traversal goes Enter, List, the files, the subfolders, Done:
\* within a folder every listed file is attempted before a subfolder is
\* entered, the subtree of a subfolder is finished before the next sibling
\* is entered, and only the innermost call lists or downloads: every other
\* call waits for the one it made.
C25_TraversalOrder ==
    \A k \in 1..(Len(stack) - 1) : WaitsFor(stack[k], stack[k + 1])

\* The root lists two subfolders before its file; the file was downloaded
\* first, the first subfolder is done, and the second is being worked on.
C25_Witness ==
    /\ tree = TreeHollow
    /\ Len(stack) = 2
    /\ Len(stack[1].items) = 3
    /\ stack[1].nfolders = 2
    /\ stack[2].folder_id = "d2" /\ stack[2].phase = "work"

\* How often the traversal made a call for folder f, and how often a
\* listing was settled for it.
CallsFor(f) == {k \in 1..Len(flog) : flog[k].id = f /\ flog[k].ev \in {"enter", "mkdir_raised"}}
Listings(f) == {k \in 1..Len(flog) : flog[k].id = f /\ flog[k].ev = "listed"}

WaitTerminates ==
    /\ <>(wpc = "done" /\ wret \in {"True", "False"})
    /\ [](elapsed <= CompletePolls /\ (wpc = "start" => elapsed <= StartPolls))
    /\ [](no_change_count > StuckLimit => wpc = "done" /\ wret = "False")

\* C27: the wait for the end of a browser download returns failure once the
\* size of a temporary file has stayed unchanged for more than the stall
\* window of consecutive checks of that file.
C27_StalledFileFails ==
    \A p \in DOMAIN streak :
        streak[p] > StuckLimit => wpc = "done" /\ wret = "False"

\* Every login ends, after at most LoginPolls turns of the wait: with the
\* Drive UI shown at the check it succeeds without a turn of the wait, and a
\* wait that runs out makes it return False; download returns False when the
\* login it made itself returned False.
LoginTerminates ==
    /\ <>(lpc = "done" /\ dret \in {"True", "False"})
    /\ [](waited <= LoginPolls)
    /\ [][lpc = "check" /\ lpc' # "check" =>
             IF _is_logged_in(shows)
             THEN lpc' = "returned" /\ lrets' = Append(lrets, "already")
             ELSE lpc' = "poll" /\ lrets' = lrets]_vars
    /\ [][lpc = "poll" /\ lpc' = "returned" =>
             lrets' = Append(lrets, IF waited < LoginPolls THEN "detected" ELSE "timeout")]_vars
    /\ [](lpc = "done" /\ lrets[Len(lrets)] \in {"timeout", "no_browser"} => dret = "False")

\* C28: when the bounded wait of an interactive login ran out, the login
\* returned failure and download returns False.
C28_ExpiredLoginFailsDownload ==
    (lpc = "done" /\ \E k \in 1..Len(lrets) : lrets[k] = "timeout") => dret = "False"

(***************************************************************************)
(* Claims about the entries of a listing                                   *)
(***************************************************************************)
\* The entries of the listing flagged as folders are those whose MIME string
\* is the folder type.
FlagIsFolderType ==
    \A k \in 1..Len(listing) : listing[k].isFolder <=> (listing[k].mimeType = FolderMime)

\* The two strategies that read a JSON body flag exactly the entries of the
\* folder type.
JsonListingFlagsFolderType ==
    by \in {"query", "batch"} => FlagIsFolderType

\* C29: in the result of every listing strategy an entry has isFolder true
\* if and only if its MIME string equals application/vnd.google-apps.folder.
C29_FolderFlagIsFolderType ==
    by # "none" => FlagIsFolderType

\* The matches of a pattern that recover the identifier, as positions.
Recovering(ms, id) == {n \in 1..Len(ms) : ms[n][1] = id}
First(S) == CHOOSE n \in S : \A m \in S : n <= m

\* The entry the earliest pattern that recovers the identifier gives it.
EarliestEntry(id) ==
    LET m1 == Recovering(raw.matches, id)
        m2 == Recovering(raw.matches2, id)
        m3 == Recovering(raw.matches3, id)
    IN  IF m1 # {}
        THEN [id |-> id, name |-> raw.matches[First(m1)][2],
              mimeType |-> raw.matches[First(m1)][3], size |-> 0,
              isFolder |-> HasFolderWord(raw.matches[First(m1)][3])]
        ELSE IF m2 # {}
        THEN [id |-> id, name |-> raw.matches2[First(m2)][2],
              mimeType |-> raw.matches2[First(m2)][3], size |-> 0,
              isFolder |-> HasFolderWord(raw.matches2[First(m2)][3])]
        ELSE [id |-> id, name |-> raw.matches3[First(m3)][2],
              mimeType |-> OctetStream, size |-> 0, isFolder |-> FALSE]

\* C30: the list the markup extraction returns never holds two entries with
\* the same identifier, and the entry of an identifier is the one of the
\* earliest pattern (1 before 2 before 3) that recovered it, with its name,
\* MIME string and folder flag.
C30_OneEntryPerIdentifier ==
    by = "html" =>
        /\ \A j, k \in 1..Len(listing) : listing[j].id = listing[k].id => j = k
        /\ \A k \in 1..Len(listing) : listing[k] = EarliestEntry(listing[k].id)
        /\ \A id \in Ids :
              (Len(id) > 20 /\ Recovering(raw.matches \o raw.matches2 \o raw.matches3, id) # {})
                  => \E k \in 1..Len(listing) : listing[k].id = id

C30_Witness ==
    /\ by = "html"
    /\ raw.matches = << << IdA, "a", FolderMime >> >>
    /\ raw.matches2 = << << IdA, "b", << >> >> >>
    /\ raw.matches3 = << << IdA, "b" >> >>
    /\ listing = << [id |-> IdA, name |-> "a", mimeType |-> FolderMime, size |-> 0,
                     isFolder |-> TRUE] >>

(***************************************************************************)
(* Claims about the names and the places of the files written              *)
(***************************************************************************)
\* The file name of the header: what follows filename=, without the prefix
\* UTF-8'' of the extended notation.
HeaderValue ==
    IF Len(disposition) >= 3 /\ SubSeq(disposition, 1, 3) = << "UTF-8", "'", "'" >>
    THEN SubSeq(disposition, 4, Len(disposition))
    ELSE disposition

\* The name the resolution order gives the file, unsafe characters replaced.
ResolvedName ==
    Substitute(IF HeaderValue # << >> THEN HeaderValue
               ELSE IF file_name # << >> THEN file_name
               ELSE << "download_", "A" >>,
               SingleUnsafe)

\* C31: the local file name of a downloaded file is the name of the
\* Content-Disposition header if there is one, else the display name, else
\* download_<identifier>, with every unsafe character replaced by '_'.
C31_FileNameResolution ==
    \A k \in 1..Len(runLog) :
        runLog[k].out = "ok" => << ResolvedName >> \in DOMAIN runLog[k].after

\* The segments of a name: what the path separators in it divide it into.
RECURSIVE Split(_, _)
Split(name, segment) ==
    LET done == IF segment = << >> THEN << >> ELSE << segment >>
    IN  IF name = << >> THEN done
        ELSE IF Head(name) = "/" THEN done \o Split(Tail(name), << >>)
        ELSE Split(Tail(name), Append(segment, Head(name)))

RECURSIVE SegmentsOf(_)
SegmentsOf(path) ==
    IF path = << >> THEN << >> ELSE Split(Head(path), << >>) \o SegmentsOf(Tail(path))

\* Following the segments from a directory depth levels below the output
\* root leads above the root.
RECURSIVE Leaves(_, _)
Leaves(segments, depth) ==
    IF segments = << >> THEN FALSE
    ELSE IF Head(segments) = << ".." >> THEN depth = 0 \/ Leaves(Tail(segments), depth - 1)
    ELSE IF Head(segments) = << "." >> THEN Leaves(Tail(segments), depth)
    ELSE Leaves(Tail(segments), depth + 1)

\* output_path / path is not inside the output root: path is absolute, or a
\* '..' in it leads above the root.
Outside(path) ==
    \/ path # << >> /\ Head(path) # << >> /\ Head(Head(path)) = "/"
    \/ Leaves(SegmentsOf(path), 0)

\* The directories above the output root, which are there before the
\* traversal: mkdir(parents=True, exist_ok=True) makes nothing of them.
AboveRoot ==
    {p \in dirs : \A n \in 1..Len(SegmentsOf(p)) : SegmentsOf(p)[n] \in {<< "." >>, << ".." >>}}

\* C33: every file and directory download_folder_recursive creates lies
\* inside the output root, whatever the names of the listing are.
C33_CreatedInsideRoot ==
    \A p \in DOMAIN files \cup (dirs \ AboveRoot) : ~Outside(p)

\* The files themselves never leave their folder's directory: a name that
\* is written holds no path separator and is not '..'.
FileNamesStayInFolder ==
    \A p \in DOMAIN files : Len(SegmentsOf(<< p[Len(p)] >>)) = 1 /\ ~Outside(<< p[Len(p)] >>)

(***************************************************************************)
(* Claims about a call that cannot be classified                           *)
(***************************************************************************)
\* C32: for a URL with no extractable identifier download returns False
\* before any session work: no cookie load, no probe, no browser, no
\* request, and the cookie jar, the authenticated flag and the cookie file
\* are what they were when the call began.
C32_UnclassifiedAbortsFirst ==
    /\ [](pc # "idle" /\ Malformed(url) =>
             /\ pc = "ret" /\ ret = FALSE
             /\ trace = << >> /\ launched = 0
             /\ cookie_file = file0)
    /\ [][pc = "idle" /\ pc' # "idle" /\ Malformed(url') =>
             UNCHANGED << cookie_file, jar, authenticated >>]_vars

C32_Witness ==
    /\ pc = "ret" /\ Malformed(url) /\ ret = FALSE
    /\ jar # {} /\ authenticated
    /\ Len(callLog) = 1

(***************************************************************************)
(* Claims about the lists and the counter of a FolderDownloader            *)
(***************************************************************************)
\* The calls of _download_single_file made so far, as positions of flog.
FileCalls == {k \in 1..Len(flog) : flog[k].ev = "file"}

C35_DownloadedFilesDistinct ==
    root_ret # "running" =>
        /\ \A j, k \in 1..Len(downloaded_files) :
              downloaded_files[j] = downloaded_files[k] => j = k
        /\ \A k \in 1..Len(downloaded_files) :
              /\ downloaded_files[k] \in DOMAIN files
              /\ files[downloaded_files[k]] > 0

(***************************************************************************)
(* Claims about the browser fallback                                       *)
(***************************************************************************)
\* C36: if the browser has written the archive (its temporary file was
\* replaced by a new, non-empty .zip) by the time the waits of the fallback
\* end, the fallback reports success, however the browser's steps fall
\* between the polls.
C36_WrittenArchiveSucceeds ==
    [][(wpc # "done" /\ wpc' = "done"
          /\ StaleTemp \notin DOMAIN files
          /\ ZipFile \in DOMAIN files /\ files[ZipFile] > 0) => wret' = "True"]_vars

LoadReturned(r) ==
    /\ pc = "validate"
    /\ trace' = Append(trace, r)

Succeeded(k) == on_page[attempts[k]] = "ok"

\* C39: the selectors are tried in order; after the first selector that
\* succeeds no further selector is tried and no further key is sent, so
\* ENTER goes out at most once; the download wait starts only after some
\* selector succeeded.
C39_ActivatedAtMostOnce ==
    /\ \A k \in 1..Len(attempts) : attempts[k] = k
    /\ \A k \in 1..Len(attempts) : \A j \in 1..(k - 1) : ~Succeeded(j)
    /\ Cardinality({k \in 1..Len(sent) : sent[k] = "ENTER"}) <= 1
    /\ mpc = "wait" => \E k \in 1..Len(attempts) : Succeeded(k)

\* The parts of C39 the loop does keep: the order, and the gate of the wait.
SelectorsInOrderAndGated ==
    /\ \A k \in 1..Len(attempts) : attempts[k] = k
    /\ mpc = "wait" => \E k \in 1..Len(attempts) : Succeeded(k)

=============================================================================
